---- MODULE Spec2Model ----
(***************************************************************************)
(* Model of brain-cli's AgentFleetManager (src/src/brain/fleet.py) running *)
(* on a single asyncio event loop.                                         *)
(*                                                                         *)
(* The event loop keeps a FIFO of ready tasks; one loop step runs the task *)
(* at the head up to its next suspension point.  Python code between two   *)
(* suspension points is atomic.  Calls made by the embedding program       *)
(* (spawn_agent, shutdown_agent, shutdown_all, cleanup_completed) contain  *)
(* no suspension point.  The subscribers registered in the process that    *)
(* runs the fleet are synchronous (subscribers.py:50), so HookManager.emit *)
(* never reaches its gather and has no suspension point either: the only   *)
(* await of _run_agent that suspends is agent.execute.                     *)
(***************************************************************************)
EXTENDS Integers, Sequences, FiniteSets, TLC

\* AgentFleetManager(max_concurrent=...)
MaxConcurrent == 1

\* how many spawn_agent calls the program makes beyond max_concurrent
Overflow == 2

\* number of spawn_agent calls made by the embedding program
MaxSubmit == MaxConcurrent + Overflow

\* Python's None for the optional fields of an AgentInstance / registry row
None == "None"

\* what spawn_agent returns for a queued submission (Python None)
Queued == 0

AgentIds == 1..MaxSubmit

\* number of spawn_agent calls of a program that also waits for its agents
MaxWaitSubmit == 1

\* how many callers of wait_for_agent the program has
MaxWaiters == 2

Waiters == 1..MaxWaiters

\* how many registrations a HookManager holds at most
MaxRegistrations == 2

\* how many registry writes of spawn_agent fail at most
MaxSaveErrors == 1

\* how many events the EventStore holds at most
MaxEvents == 3

\* the seconds, and the microseconds, of an event's time are 0..MaxTime
MaxTime == 1

\* get_events: the default of limit
DefaultLimit == 100

\* the agent ids of the stored events
StoreAgents == {"a", "b"}

\* datetime values
Timestamps == [sec : 0..MaxTime, usec : 0..MaxTime]

\* how many agents ask for a worktree
MaxWorktrees == 2

WtAgents == 1..MaxWorktrees

\* the hours the clock runs
MaxClock == 2

\* max_concurrent_agents of the orchestrator's fleet
MaxOrchConcurrent == 2

\* how many times the orchestrator calls spawn_agent
MaxOrchSubmit == 2

\* the largest tokens_used and the largest cost a driver reports
MaxTokens == 1

MaxCost == 1

\* how many websockets connect
MaxConnections == 2

Connections == 1..MaxConnections

\* how many broadcasts are made
MaxBroadcasts == 2

\* the largest cleanup_after_hours a WorktreeManager is made with
MaxCleanupAfter == 1

\* WorktreeManager(): the default of cleanup_after_hours
DefaultCleanupAfterHours == 24

\* AgentStatus
SPAWNING == "spawning"
RUNNING == "running"
COMPLETED == "completed"
FAILED == "failed"
SHUTDOWN == "shutdown"

\* the callbacks of the program, one of each kind: a plain function or a
\* coroutine function, that returns or raises
Callbacks == {"sync_ok", "sync_raises", "async_ok", "async_raises"}

\* asyncio.iscoroutinefunction(callback), and whether the call raises
cbAttr ==
  [c \in Callbacks |-> [async |-> c \in {"async_ok", "async_raises"},
                        raises |-> c \in {"sync_raises", "async_raises"}]]

AgentStatus == {SPAWNING, RUNNING, COMPLETED, FAILED, SHUTDOWN}

Terminal == {COMPLETED, FAILED, SHUTDOWN}

\* EventType values of the agent lifecycle
AGENT_SPAWNED == "agent_spawned"
AGENT_STARTED == "agent_started"
AGENT_COMPLETED == "agent_completed"
AGENT_FAILED == "agent_failed"

\* the event types the program subscribes to and emits
HookKinds == {AGENT_SPAWNED, AGENT_STARTED}

VARIABLES
  active_agents,  \* keys of self.active_agents (agent_id -> AgentInstance)
  instances,      \* the AgentInstance objects, by agent_id; an object lives
                  \* on after its key is deleted from active_agents, because
                  \* the _run_agent coroutine holds a reference to it
  db,             \* the agents table: agent_id -> row
  task_queue,     \* self.task_queue; an entry is named by its task number
  ready,          \* the event loop's FIFO of ready tasks
  blocked,        \* agent ids whose _run_agent task is suspended in
                  \* agent.execute
  events,         \* events[id]: the kinds delivered for agent_id, in order
  crashed,        \* agent ids whose _run_agent task ended with an unhandled error
  nextId,         \* the next fresh agent id (uuid4)
  nextTask,       \* the number of the next submission
  wasQueued,      \* tasks that spawn_agent appended to the queue
  ret,            \* what the last spawn_agent call of the program returned
  raised,         \* agent ids whose driver invocation raised
  waiters,        \* the wait_for_agent calls of the program, by caller
  reply,          \* what the last get_agent_status / shutdown_agent call
                  \* of the program gave its caller
  subscribers,    \* HookManager.subscribers: event type -> list of callbacks
  hemit,          \* the emit call in progress or last made
  calls,          \* calls[c]: how often callback c ran for the event of
                  \* that emit call
  hcall,          \* the last subscribe / unsubscribe call and its error
  store,          \* the rows of the events table, in insertion order
  qres,           \* the query made on the events table as it is now, if
                  \* there was one, and what it returned
  active_worktrees,     \* WorktreeManager: agent_id -> Worktree
  cleanup_after_hours,  \* WorktreeManager: the age limit of cleanup
  clock,          \* datetime.now(), in hours
  wtcall,         \* the call just made on the WorktreeManager
  paths,          \* the agents whose worktree directory exists on disk
  wtret,          \* the call just made on the WorktreeManager: its
                  \* arguments, what it returned and the git commands it ran
  max_concurrent, \* AgentFleetManager.max_concurrent
  delivered,      \* delivered[id]: for each event delivered for agent_id, the
                  \* status its row in the agents table had at the delivery
  orch,           \* the execute call of the orchestrator: where it is, its
                  \* locals and what it returned
  session,        \* the session: conversation, total_tokens, total_cost
  active_connections, \* ConnectionManager.active_connections
  sockets,        \* the state of each websocket: new, open, broken (sends to
                  \* it fail), closed
  bcast,          \* the broadcast call in progress or the last one: its
                  \* position in the list, the sends attempted, made and
                  \* failed, and the sends attempted to a connection that a
                  \* send had failed for before
  send_failed,    \* the connections for which a send of a broadcast failed
  nbroadcast,     \* how many broadcasts were started
  persist,        \* the last event emitted to the DatabaseEventSubscriber:
                  \* how the write ended and what emit raised
  held,           \* the value a caller got from get_agent_status,
                  \* list_active_agents or list_agents_by_project and still
                  \* holds: the instances in it and what they were at the
                  \* return
  save_error      \* how many spawn_agent calls of the program ended with
                  \* the error of a failed registry write

\* the state of the fleet manager and of its tasks
fleetVars == <<active_agents, instances, db, task_queue, ready, blocked,
               events, crashed, nextId, nextTask, wasQueued, ret, raised,
               max_concurrent, delivered>>

\* the callers of wait_for_agent, get_agent_status and shutdown_agent
waitVars == <<waiters, reply>>

\* a HookManager with its callbacks and its publisher
hookVars == <<subscribers, hemit, calls, hcall>>

\* an EventStore and its reader
storeVars == <<store, qres>>

\* a WorktreeManager and the clock
treeVars == <<active_worktrees, cleanup_after_hours, clock, wtcall, paths,
              wtret>>

\* an orchestrator and its session
orchVars == <<orch, session>>

\* the ConnectionManager, its websockets and its broadcasts
wsVars == <<active_connections, sockets, bcast, send_failed, nbroadcast>>

\* the observability service: the websockets and the persisted emit
obsVars == <<wsVars, persist>>

\* the callers that read the fleet manager and that see its errors
callerVars == <<held, save_error>>

\* everything outside the fleet manager and its tasks
nonFleet == <<waitVars, hookVars, storeVars, treeVars, orchVars, obsVars,
              callerVars>>

\* everything outside the callers of the fleet manager
nonWait == <<hookVars, storeVars, treeVars, orchVars, obsVars, callerVars>>

\* everything outside the HookManager
nonHook == <<fleetVars, waitVars, storeVars, treeVars, orchVars, obsVars,
             callerVars>>

\* everything outside the EventStore
nonStore == <<fleetVars, waitVars, hookVars, treeVars, orchVars, obsVars,
              callerVars>>

\* everything outside the WorktreeManager
nonTree == <<fleetVars, waitVars, hookVars, storeVars, orchVars, obsVars,
             callerVars>>

\* everything outside the observability service and the EventStore
nonObs == <<fleetVars, waitVars, hookVars, treeVars, orchVars, callerVars>>

\* everything outside the fleet manager and the readers of its instances
nonCaller == <<waitVars, hookVars, storeVars, treeVars, orchVars, obsVars>>

\* everything outside the ConnectionManager
nonWs == <<nonObs, storeVars, persist>>

vars == <<fleetVars, nonFleet>>

\* no AgentInstance / no row for this id yet
NoInstance == [task |-> 0, status |-> None, completion_time |-> None,
               result |-> None, error |-> None]

NoRow == [status |-> None, completion_time |-> None, error |-> None,
          tokens_used |-> None]

\* AgentInstance(..., status=SPAWNING, ...) with the dataclass defaults
AgentInstance(task) == [task |-> task, status |-> SPAWNING,
                        completion_time |-> None, result |-> None,
                        error |-> None]

\* the scheduler state that the operations below transform
State == [active |-> active_agents, inst |-> instances, db |-> db,
          queue |-> task_queue, ready |-> ready, blocked |-> blocked,
          events |-> events, crashed |-> crashed, nextId |-> nextId,
          wasQueued |-> wasQueued, ret |-> ret, raised |-> raised,
          max_concurrent |-> max_concurrent, delivered |-> delivered]

\* INSERT OR REPLACE of the instance's row
_save_instance(s, id) ==
  LET instance == s.inst[id]
  IN [s EXCEPT !.db[id] =
        [status |-> instance.status,
         completion_time |-> instance.completion_time,
         error |-> instance.error,
         tokens_used |-> IF instance.result # None THEN "tokens" ELSE None]]

\* HookManager.emit: every synchronous subscriber is called with the event
emit(s, id, kind) ==
  [s EXCEPT !.events[id] = Append(@, kind),
            !.delivered[id] = Append(@, s.db[id].status)]

Task(kind, id, pc) == [kind |-> kind, id |-> id, pc |-> pc]

spawn_agent_gt(s, task) ==
  IF Cardinality(s.active) > s.max_concurrent
  THEN [s EXCEPT !.queue = Append(@, task),
                 !.wasQueued = @ \cup {task},
                 !.ret = Queued]
  ELSE LET agent_id == s.nextId
           s1 == [s EXCEPT !.nextId = @ + 1,
                           !.inst[agent_id] = AgentInstance(task),
                           !.active = @ \cup {agent_id}]
           s2 == _save_instance(s1, agent_id)
       IN [s2 EXCEPT !.ready = @ \o <<Task("run", agent_id, "start"),
                                      Task("spawned", agent_id, "start")>>,
                     !.ret = agent_id]

spawn_agent_front(s, task) ==
  IF Cardinality(s.active) >= s.max_concurrent
  THEN [s EXCEPT !.queue = <<task>> \o @,
                 !.wasQueued = @ \cup {task},
                 !.ret = Queued]
  ELSE LET agent_id == s.nextId
           s1 == [s EXCEPT !.nextId = @ + 1,
                           !.inst[agent_id] = AgentInstance(task),
                           !.active = @ \cup {agent_id}]
           s2 == _save_instance(s1, agent_id)
       IN [s2 EXCEPT !.ready = @ \o <<Task("run", agent_id, "start"),
                                      Task("spawned", agent_id, "start")>>,
                     !.ret = agent_id]

\* spawn_agent: no suspension point; the two create_task calls put the
\* _run_agent task and then the agent_spawned task on the loop
spawn_agent(s, task) ==
  IF Cardinality(s.active) >= s.max_concurrent
  THEN [s EXCEPT !.queue = Append(@, task),
                 !.wasQueued = @ \cup {task},
                 !.ret = Queued]
  ELSE LET agent_id == s.nextId
           s1 == [s EXCEPT !.nextId = @ + 1,
                           !.inst[agent_id] = AgentInstance(task),
                           !.active = @ \cup {agent_id}]
           s2 == _save_instance(s1, agent_id)
       IN [s2 EXCEPT !.ready = @ \o <<Task("run", agent_id, "start"),
                                      Task("spawned", agent_id, "start")>>,
                     !.ret = agent_id]

RECURSIVE _process_queue_lifo(_)
_process_queue_lifo(s) ==
  IF s.queue # <<>> /\ Cardinality(s.active) < s.max_concurrent
  THEN _process_queue_lifo(
         spawn_agent([s EXCEPT !.queue = SubSeq(@, 1, Len(@) - 1)],
                     s.queue[Len(s.queue)]))
  ELSE s

RECURSIVE _process_queue_keep(_)
_process_queue_keep(s) ==
  IF s.queue # <<>> /\ Cardinality(s.active) < s.max_concurrent
  THEN _process_queue_keep(spawn_agent(s, Head(s.queue)))
  ELSE s

\* _process_queue: pop(0) and spawn while there is room
RECURSIVE _process_queue(_)
_process_queue(s) ==
  IF s.queue # <<>> /\ Cardinality(s.active) < s.max_concurrent
  THEN _process_queue(spawn_agent([s EXCEPT !.queue = Tail(@)], Head(s.queue)))
  ELSE s

\* the finally clause of _run_agent; the task ends after it
run_finally(s, id) == _process_queue(s)

\* the emit that ends the try body or the except handler, then the
\* finally clause
emit_terminal(s, id, kind) == run_finally(emit(s, id, kind), id)

run_completed_both(s, id) ==
  LET s1 == [s EXCEPT !.inst[id].result = "result",
                      !.inst[id].status = COMPLETED,
                      !.inst[id].completion_time = "set"]
      s2 == emit(_save_instance(s1, id), id, AGENT_COMPLETED)
      s3 == [s2 EXCEPT !.inst[id].status = FAILED,
                       !.inst[id].error = "error"]
  IN emit_terminal(_save_instance(s3, id), id, AGENT_FAILED)

run_completed_emit_first(s, id) ==
  LET s1 == [s EXCEPT !.inst[id].result = "result",
                      !.inst[id].status = COMPLETED,
                      !.inst[id].completion_time = "set"]
  IN run_finally(_save_instance(emit(s1, id, AGENT_COMPLETED), id), id)

\* _run_agent after agent.execute returned (lines 223-246)
run_completed(s, id) ==
  LET s1 == [s EXCEPT !.inst[id].result = "result",
                      !.inst[id].status = COMPLETED,
                      !.inst[id].completion_time = "set"]
  IN emit_terminal(_save_instance(s1, id), id, AGENT_COMPLETED)

run_failed_retry(s, id) == [s EXCEPT !.blocked = @ \cup {id}]

\* _run_agent's except handler (lines 248-267)
run_failed(s, id) ==
  LET s1 == [s EXCEPT !.inst[id].status = FAILED,
                      !.inst[id].error = "error",
                      !.inst[id].completion_time = "set"]
  IN emit_terminal(_save_instance(s1, id), id, AGENT_FAILED)

\* agent_class(config) and agent.execute(task): the constructor raises, or
\* execute suspends until the driver is done
run_driver(s, id, outcome) ==
  IF outcome = "raise"
  THEN run_failed([s EXCEPT !.raised = @ \cup {id}], id)
  ELSE [s EXCEPT !.blocked = @ \cup {id}]

\* the first step of _run_agent (lines 200-215); the lookup of line 200 is
\* outside the try statement
run_start(s, id, outcome) ==
  IF id \notin s.active
  THEN [s EXCEPT !.crashed = @ \cup {id}]
  ELSE LET s1 == [s EXCEPT !.inst[id].status = RUNNING]
           s2 == emit(_save_instance(s1, id), id, AGENT_STARTED)
       IN run_driver(s2, id, outcome)

\* _run_agent from the task's position up to its next suspension; outcome
\* is what the driver does at this step
_run_agent(s, t, outcome) ==
  IF t.pc = "start"
  THEN run_start(s, t.id, IF outcome = "return" THEN "suspend" ELSE outcome)
  ELSE IF outcome = "raise"
       THEN run_failed([s EXCEPT !.raised = @ \cup {t.id}], t.id)
       ELSE run_completed(s, t.id)

\* the task created for hooks.agent_spawned (lines 176-184)
agent_spawned(s, t) == emit(s, t.id, AGENT_SPAWNED)

\* shutdown_agent
shutdown_agent(s, agent_id) ==
  IF agent_id \in s.active
  THEN _save_instance([s EXCEPT !.inst[agent_id].status = SHUTDOWN], agent_id)
  ELSE s

\* shutdown_all: shutdown_agent for every key
RECURSIVE shutdown_ids(_, _)
shutdown_ids(s, ids) ==
  IF ids = {}
  THEN s
  ELSE LET agent_id == CHOOSE i \in ids : \A j \in ids : i <= j
       IN shutdown_ids(shutdown_agent(s, agent_id), ids \ {agent_id})

shutdown_all(s) == shutdown_ids(s, s.active)

\* cleanup_completed
cleanup_completed(s) ==
  LET to_remove == {agent_id \in s.active :
                      s.inst[agent_id].status \in {COMPLETED, FAILED, SHUTDOWN}}
  IN [s EXCEPT !.active = @ \ to_remove]

get_running_count == Cardinality({agent_id \in active_agents :
                                    instances[agent_id].status = RUNNING})

get_queue_size == Len(task_queue)

\* the next state is s, except for ret
Commit(s) ==
  /\ active_agents' = s.active
  /\ instances' = s.inst
  /\ db' = s.db
  /\ task_queue' = s.queue
  /\ ready' = s.ready
  /\ blocked' = s.blocked
  /\ events' = s.events
  /\ crashed' = s.crashed
  /\ nextId' = s.nextId
  /\ wasQueued' = s.wasQueued
  /\ raised' = s.raised
  /\ max_concurrent' = s.max_concurrent
  /\ delivered' = s.delivered

\* a caller that has not called wait_for_agent
NoWait == [id |-> Queued, timeout |-> None, pc |-> "idle", seen |-> None,
           outcome |-> None]

\* no get_agent_status / shutdown_agent call was made
NoReply == [op |-> None, found |-> FALSE, error |-> None]

\* no value is held by a caller
NoHeld == [op |-> None, ids |-> {}, at_return |-> <<>>, edits |-> 0]

\* AgentFleetManager(max_concurrent=limit) and its callers
FleetManagerInit(limit) ==
  /\ held = NoHeld
  /\ save_error = 0
  /\ max_concurrent = limit
  /\ active_agents = {}
  /\ instances = [i \in AgentIds |-> NoInstance]
  /\ db = [i \in AgentIds |-> NoRow]
  /\ task_queue = <<>>
  /\ ready = <<>>
  /\ blocked = {}
  /\ events = [i \in AgentIds |-> <<>>]
  /\ delivered = [i \in AgentIds |-> <<>>]
  /\ crashed = {}
  /\ nextId = 1
  /\ nextTask = 1
  /\ wasQueued = {}
  /\ ret = Queued
  /\ raised = {}
  /\ waiters = [w \in Waiters |-> NoWait]
  /\ reply = NoReply

FleetInit == FleetManagerInit(MaxConcurrent)

\* no emit call was made
NoEmit == [pc |-> "idle", kind |-> None, registered |-> <<>>,
           tasks |-> <<>>, result |-> None]

\* no subscribe / unsubscribe call was made
NoCall == [op |-> None, kind |-> None, callback |-> None, error |-> None]

\* HookManager(): an empty list for every event type
HookManagerInit ==
  /\ subscribers = [k \in HookKinds |-> <<>>]
  /\ hemit = NoEmit
  /\ calls = [c \in Callbacks |-> 0]
  /\ hcall = NoCall

\* no query was made
NoQuery == [op |-> None, agent_id |-> None, limit |-> 0, offset |-> 0,
            result |-> <<>>]

\* an EventStore over an empty events table
EventStoreInit ==
  /\ store = <<>>
  /\ qres = NoQuery

\* the repo_path a caller passes, and <repo_root>/.agent-worktrees/<agent_id>
RepoPath == "repo_path"

\* a second repository that the same WorktreeManager is used with
OtherRepo == "other_repo"

Repos == {RepoPath, OtherRepo}

\* the repository root in the path of the worktree of agent_id: an agent
\* works in one repository, the agents with an odd number in repo_path
RepoRoot(agent_id) == IF agent_id % 2 = 1 THEN RepoPath ELSE OtherRepo

WorktreePath(agent_id) == <<".agent-worktrees", agent_id>>

\* no call was made on the WorktreeManager
NoWtCall == [op |-> None, agent_id |-> None, is_repo |-> FALSE,
             force |-> FALSE, outcome |-> None, path |-> None, git |-> {}]

\* WorktreeManager(cleanup_after_hours): nothing is tracked
WorktreeManagerInit(hours) ==
  /\ active_worktrees = <<>>
  /\ cleanup_after_hours = hours
  /\ clock = 0
  /\ wtcall = None
  /\ paths = {}
  /\ wtret = NoWtCall

\* no execute call was made
\* a session without turns; present is whether the orchestrator was given
\* a session at all
NewSession == [present |-> TRUE, conversation |-> <<>>, total_tokens |-> 0,
               total_cost |-> 0]

\* no execute call was made.  agent_ids, results and the index k are the
\* locals of _execute_multi; outcomes is what each wait_for_agent gave,
\* obtained the worktrees that get_or_create_worktree gave, before the
\* session when the call was made.
NoExecute == [pc |-> "idle", mode |-> None, num_agents |-> 0,
              agent_ids |-> <<>>, k |-> 1,
              results |-> <<>>, outcomes |-> <<>>, response |-> <<>>,
              error |-> None, before |-> NewSession, obtained |-> {}]

\* no broadcast was made
NoBroadcast == [pc |-> "idle", i |-> 1, attempted |-> {}, sent |-> {},
                failed |-> {}, again |-> {}]

\* no event was emitted to the DatabaseEventSubscriber
NoPersist == [event |-> None, write |-> None, raised |-> FALSE, before |-> 0]

\* AgnosticOrchestrator(..., session): nothing was executed
OrchestratorInit ==
  /\ orch = NoExecute
  /\ session = NewSession

\* ConnectionManager() and no websocket yet
ConnectionManagerInit ==
  /\ active_connections = <<>>
  /\ sockets = [c \in Connections |-> "new"]
  /\ bcast = NoBroadcast
  /\ send_failed = {}
  /\ nbroadcast = 0

\* the observability service before any connection and any event
ObservabilityInit ==
  /\ ConnectionManagerInit
  /\ persist = NoPersist

Init ==
  /\ FleetInit
  /\ HookManagerInit
  /\ EventStoreInit
  /\ WorktreeManagerInit(DefaultCleanupAfterHours)
  /\ OrchestratorInit
  /\ ObservabilityInit

\* two tasks that one spawn_agent call created are adjacent in the loop's
\* FIFO: nothing runs between the _run_agent task and the agent_spawned task
Interleave == IF ready = <<>> THEN TRUE ELSE Head(ready).kind # "spawned"

\* the program calls spawn_agent
Submit ==
  /\ Interleave
  /\ nextTask <= MaxSubmit
  /\ LET s == spawn_agent(State, nextTask)
     IN Commit(s) /\ ret' = s.ret
  /\ nextTask' = nextTask + 1
  /\ UNCHANGED nonFleet

\* the program calls shutdown_agent
Shutdown ==
  /\ Interleave
  /\ \E agent_id \in 1..(nextId - 1) : Commit(shutdown_agent(State, agent_id))
  /\ UNCHANGED <<nextTask, ret, nonFleet>>

\* the program calls shutdown_all
ShutdownAll ==
  /\ Interleave
  /\ active_agents # {}
  /\ Commit(shutdown_all(State))
  /\ UNCHANGED <<nextTask, ret, nonFleet>>

\* the program calls cleanup_completed
Cleanup ==
  /\ Interleave
  /\ active_agents # {}
  /\ Commit(cleanup_completed(State))
  /\ UNCHANGED <<nextTask, ret, nonFleet>>

\* the loop runs the _run_agent task at the head of the ready queue
RunAgentStep ==
  /\ ready # <<>>
  /\ Head(ready).kind = "run"
  /\ \E outcome \in {"return", "raise"} :
       Commit(_run_agent([State EXCEPT !.ready = Tail(@)], Head(ready), outcome))
  /\ UNCHANGED <<nextTask, ret, nonFleet>>

\* the loop runs the agent_spawned task at the head of the ready queue
AgentSpawnedStep ==
  /\ ready # <<>>
  /\ Head(ready).kind = "spawned"
  /\ Commit(agent_spawned([State EXCEPT !.ready = Tail(@)], Head(ready)))
  /\ UNCHANGED <<nextTask, ret, nonFleet>>

\* the future that agent.execute awaits is done (result or exception): the
\* loop makes the suspended _run_agent task ready
DriverDone ==
  /\ Interleave
  /\ \E id \in blocked :
       /\ blocked' = blocked \ {id}
       /\ ready' = Append(ready, Task("run", id, "driver_done"))
  /\ UNCHANGED <<active_agents, instances, db, task_queue, events, crashed,
                 nextId, nextTask, wasQueued, ret, raised, max_concurrent,
                 delivered, nonFleet>>

Next ==
  \/ Submit
  \/ Shutdown
  \/ ShutdownAll
  \/ Cleanup
  \/ RunAgentStep
  \/ AgentSpawnedStep
  \/ DriverDone

Spec == Init /\ [][Next]_vars

\* spawn_agent when _save_instance raises (sqlite3.connect, execute or commit
\* fails): lines 143-166 have run, the error leaves spawn_agent at line 169
\* and neither create_task call is reached. The write fails only where one
\* is made, that is when the submission is not queued.
spawn_agent_save_raises(s, task) ==
  LET agent_id == s.nextId
  IN [s EXCEPT !.nextId = @ + 1,
               !.inst[agent_id] = AgentInstance(task),
               !.active = @ \cup {agent_id}]

\* the program calls spawn_agent and the registry write fails
SubmitSaveRaises ==
  /\ Interleave
  /\ nextTask <= MaxSubmit
  /\ save_error < MaxSaveErrors
  /\ Cardinality(active_agents) < max_concurrent
  /\ Commit(spawn_agent_save_raises(State, nextTask))
  /\ nextTask' = nextTask + 1
  /\ save_error' = save_error + 1
  /\ UNCHANGED <<ret, held, nonCaller>>

SaveNext ==
  \/ Submit
  \/ SubmitSaveRaises
  \/ Shutdown
  \/ ShutdownAll
  \/ Cleanup
  \/ RunAgentStep
  \/ AgentSpawnedStep
  \/ DriverDone

\* the fleet manager on a registry whose writes at submission can fail
SaveSpec == Init /\ [][SaveNext]_vars

\* `if timeout:` (line 330): None and 0 are both false
Truthy(timeout) == timeout = "positive"

wait_for_agent_cancel(s, wt, expired) ==
  LET found == wt.id \in s.active
      status == IF found THEN s.inst[wt.id].status ELSE None
  IN IF ~found
     THEN [s |-> s,
           w |-> [wt EXCEPT !.pc = "done", !.seen = None,
                            !.outcome = "ValueError"]]
     ELSE IF status \in {COMPLETED, FAILED}
     THEN [s |-> s,
           w |-> [wt EXCEPT !.pc = "done", !.seen = status,
                            !.outcome = IF status = FAILED
                                        THEN "RuntimeError"
                                        ELSE s.inst[wt.id].result]]
     ELSE IF Truthy(wt.timeout) /\ expired
     THEN [s |-> shutdown_agent(s, wt.id),
           w |-> [wt EXCEPT !.pc = "done", !.seen = status,
                            !.outcome = "TimeoutError"]]
     ELSE [s |-> s, w |-> [wt EXCEPT !.pc = "sleeping", !.seen = status]]

\* one iteration of the loop of wait_for_agent (lines 318-336) by the
\* waiter wt; expired is whether elapsed > timeout at line 332.  Gives the
\* scheduler state and the waiter after the iteration.
wait_for_agent(s, wt, expired) ==
  LET found == wt.id \in s.active
      status == IF found THEN s.inst[wt.id].status ELSE None
  IN IF ~found
     THEN [s |-> s,
           w |-> [wt EXCEPT !.pc = "done", !.seen = None,
                            !.outcome = "ValueError"]]
     ELSE IF status \in {COMPLETED, FAILED}
     THEN [s |-> s,
           w |-> [wt EXCEPT !.pc = "done", !.seen = status,
                            !.outcome = IF status = FAILED
                                        THEN "RuntimeError"
                                        ELSE s.inst[wt.id].result]]
     ELSE IF Truthy(wt.timeout) /\ expired
     THEN [s |-> s,
           w |-> [wt EXCEPT !.pc = "done", !.seen = status,
                            !.outcome = "TimeoutError"]]
     ELSE [s |-> s, w |-> [wt EXCEPT !.pc = "sleeping", !.seen = status]]

\* get_agent_status: active_agents.get(agent_id), never an error
get_agent_status(s, agent_id) ==
  [op |-> "status", found |-> agent_id \in s.active, error |-> None]

\* what shutdown_agent gives its caller: nothing, and never an error
shutdown_reply(s, agent_id) ==
  [op |-> "shutdown", found |-> agent_id \in s.active, error |-> None]

\* the ids a caller can pass: the ids spawn_agent returned, and the None
\* that it returned for a queued submission
CallerIds == (1..(nextId - 1)) \cup {Queued}

\* the program calls wait_for_agent: the first iteration runs in the call
WaitCall ==
  /\ Interleave
  /\ \E w \in Waiters, id \in CallerIds,
        timeout \in {None, "zero", "positive"}, expired \in BOOLEAN :
       /\ waiters[w].pc = "idle"
       /\ \A v \in Waiters : v < w => waiters[v].pc # "idle"
       /\ LET r == wait_for_agent(State,
                     [NoWait EXCEPT !.id = id, !.timeout = timeout], expired)
          IN Commit(r.s) /\ waiters' = [waiters EXCEPT ![w] = r.w]
  /\ UNCHANGED <<nextTask, ret, reply, nonWait>>

\* asyncio.sleep(0.5) is over: the next iteration of a waiter
WaitPoll ==
  /\ Interleave
  /\ \E w \in Waiters, expired \in BOOLEAN :
       /\ waiters[w].pc = "sleeping"
       /\ LET r == wait_for_agent(State, waiters[w], expired)
          IN Commit(r.s) /\ waiters' = [waiters EXCEPT ![w] = r.w]
  /\ UNCHANGED <<nextTask, ret, reply, nonWait>>

\* the program calls get_agent_status
StatusCall ==
  /\ Interleave
  /\ \E agent_id \in CallerIds : reply' = get_agent_status(State, agent_id)
  /\ UNCHANGED <<fleetVars, waiters, nonWait>>

\* the program calls shutdown_agent and looks at what it gets back
ShutdownReply ==
  /\ Interleave
  /\ \E agent_id \in CallerIds :
       /\ Commit(shutdown_agent(State, agent_id))
       /\ reply' = shutdown_reply(State, agent_id)
  /\ UNCHANGED <<nextTask, ret, waiters, nonWait>>

\* the program calls spawn_agent, MaxWaitSubmit times at most
WaitSubmit == nextTask <= MaxWaitSubmit /\ Submit

WaitNext ==
  \/ WaitSubmit
  \/ ShutdownReply
  \/ Cleanup
  \/ RunAgentStep
  \/ AgentSpawnedStep
  \/ DriverDone
  \/ WaitCall
  \/ WaitPoll
  \/ StatusCall

\* the fleet manager with callers that wait for agents and ask for status
WaitSpec == Init /\ [][WaitNext]_vars

\* how many registrations of callback c the list holds
Registrations(list, c) == Cardinality({k \in DOMAIN list : list[k] = c})

\* list.remove(c): the list without its first c
RECURSIVE Remove(_, _)
Remove(list, c) ==
  IF list = <<>>
  THEN <<>>
  ELSE IF Head(list) = c
       THEN Tail(list)
       ELSE <<Head(list)>> \o Remove(Tail(list), c)

\* the list without any c
RemoveAll(list, c) == SelectSeq(list, LAMBDA x : x # c)

subscribe_unique(subs, event_type, callback) ==
  IF Registrations(subs[event_type], callback) > 0
  THEN subs
  ELSE [subs EXCEPT ![event_type] = Append(@, callback)]

\* HookManager.subscribe
subscribe(subs, event_type, callback) ==
  [subs EXCEPT ![event_type] = Append(@, callback)]

unsubscribe_all(subs, event_type, callback) ==
  [subs |-> [subs EXCEPT ![event_type] = RemoveAll(@, callback)],
   error |-> None]

\* HookManager.unsubscribe: the ValueError of list.remove is swallowed
unsubscribe(subs, event_type, callback) ==
  [subs |-> [subs EXCEPT ![event_type] = Remove(@, callback)],
   error |-> None]

RECURSIVE emit_loop_nocatch(_, _, _)
emit_loop_nocatch(list, i, e) ==
  IF i > Len(list) \/ e.result = "raised"
  THEN e
  ELSE LET callback == list[i]
       IN IF cbAttr[callback].async
          THEN emit_loop_nocatch(list, i + 1,
                 [e EXCEPT !.tasks = Append(@, callback)])
          ELSE emit_loop_nocatch(list, i + 1,
                 [e EXCEPT !.calls[callback] = @ + 1,
                           !.result = IF cbAttr[callback].raises
                                      THEN "raised" ELSE @])

\* the for loop of HookManager.emit (lines 70-80) from position i of the
\* list: a coroutine function gives a coroutine that is kept for the
\* gather, a plain function runs now and what it raises is caught
RECURSIVE emit_loop(_, _, _)
emit_loop(list, i, e) ==
  IF i > Len(list)
  THEN e
  ELSE LET callback == list[i]
       IN IF cbAttr[callback].async
          THEN emit_loop(list, i + 1, [e EXCEPT !.tasks = Append(@, callback)])
          ELSE emit_loop(list, i + 1, [e EXCEPT !.calls[callback] = @ + 1])

\* HookManager.emit up to its await: the loop, then gather if there are
\* coroutines, else the return
emit_call(subs, event_type) ==
  LET e == emit_loop(subs[event_type], 1,
             [calls |-> [c \in Callbacks |-> 0], tasks |-> <<>>,
              result |-> None])
  IN [calls |-> e.calls,
      hemit |-> [pc |-> IF e.result = "raised" \/ e.tasks = <<>>
                        THEN "idle" ELSE "gather",
                 kind |-> event_type,
                 registered |-> subs[event_type],
                 tasks |-> e.tasks,
                 result |-> IF e.result = "raised" THEN "raised"
                            ELSE IF e.tasks = <<>> THEN "returned" ELSE None]]

\* the program calls subscribe
Subscribe ==
  /\ \E event_type \in HookKinds, callback \in Callbacks :
       /\ Len(subscribers[AGENT_SPAWNED]) + Len(subscribers[AGENT_STARTED])
            < MaxRegistrations
       /\ subscribers' = subscribe(subscribers, event_type, callback)
       /\ hcall' = [op |-> "subscribe", kind |-> event_type,
                    callback |-> callback, error |-> None]
  /\ UNCHANGED <<nonHook, hemit, calls>>

\* the program calls unsubscribe
Unsubscribe ==
  /\ \E event_type \in HookKinds, callback \in Callbacks :
       LET r == unsubscribe(subscribers, event_type, callback)
       IN /\ subscribers' = r.subs
          /\ hcall' = [op |-> "unsubscribe", kind |-> event_type,
                       callback |-> callback, error |-> r.error]
  /\ UNCHANGED <<nonHook, hemit, calls>>

\* a publisher awaits emit(event): the loop over the subscribers runs
Emit ==
  /\ hemit.pc = "idle"
  /\ \E event_type \in HookKinds :
       LET r == emit_call(subscribers, event_type)
       IN hemit' = r.hemit /\ calls' = r.calls
  /\ UNCHANGED <<nonHook, subscribers, hcall>>

\* asyncio.gather(*tasks, return_exceptions=True): the next coroutine runs,
\* what it raises is kept as its result; after the last one emit returns
EmitGather ==
  /\ hemit.pc = "gather"
  /\ calls' = [calls EXCEPT ![Head(hemit.tasks)] = @ + 1]
  /\ hemit' = IF Len(hemit.tasks) = 1
              THEN [hemit EXCEPT !.tasks = <<>>, !.pc = "idle",
                                 !.result = "returned"]
              ELSE [hemit EXCEPT !.tasks = Tail(@)]
  /\ UNCHANGED <<nonHook, subscribers, hcall>>

HookNext ==
  \/ Subscribe
  \/ Unsubscribe
  \/ Emit
  \/ EmitGather

\* a HookManager with a program that subscribes, unsubscribes and emits
HookSpec == Init /\ [][HookNext]_vars

\* the plain-function callbacks of a program whose callbacks call back into
\* the HookManager: one that does nothing, one that unsubscribes itself,
\* one that unsubscribes another callback, one that subscribes another
Handlers == {"plain", "unsub_self", "unsub_plain", "sub_plain"}

\* what a handler does with the HookManager when it is called with an
\* event: the call it makes, for the type of the event
handlerDoes ==
  [c \in Handlers |->
     IF c = "unsub_self" THEN [op |-> "unsubscribe", callback |-> "unsub_self"]
     ELSE IF c = "unsub_plain" THEN [op |-> "unsubscribe", callback |-> "plain"]
     ELSE IF c = "sub_plain" THEN [op |-> "subscribe", callback |-> "plain"]
     ELSE [op |-> None, callback |-> None]]

\* callback(event) for a handler (line 76): its call of subscribe or
\* unsubscribe works on the list that emit is iterating over
call_handler(subs, event_type, callback) ==
  IF handlerDoes[callback].op = "unsubscribe"
  THEN unsubscribe(subs, event_type, handlerDoes[callback].callback).subs
  ELSE IF handlerDoes[callback].op = "subscribe"
       THEN subscribe(subs, event_type, handlerDoes[callback].callback)
       ELSE subs

\* the for loop of HookManager.emit (lines 70-80) over
\* self.subscribers[event_type] itself: the list iterator keeps an index,
\* and reads the list as it is when the index gets there
RECURSIVE emit_over_live_list(_, _, _, _)
emit_over_live_list(subs, event_type, i, called) ==
  IF i > Len(subs[event_type])
  THEN [subs |-> subs, calls |-> called]
  ELSE LET callback == subs[event_type][i]
       IN emit_over_live_list(call_handler(subs, event_type, callback),
            event_type, i + 1, [called EXCEPT ![callback] = @ + 1])

\* the program subscribes a handler
SubscribeHandler ==
  /\ \E event_type \in HookKinds, callback \in Handlers :
       /\ Len(subscribers[AGENT_SPAWNED]) + Len(subscribers[AGENT_STARTED])
            < MaxRegistrations
       /\ subscribers' = subscribe(subscribers, event_type, callback)
       /\ hcall' = [op |-> "subscribe", kind |-> event_type,
                    callback |-> callback, error |-> None]
  /\ UNCHANGED <<nonHook, hemit, calls>>

\* the program unsubscribes a handler
UnsubscribeHandler ==
  /\ \E event_type \in HookKinds, callback \in Handlers :
       LET r == unsubscribe(subscribers, event_type, callback)
       IN /\ subscribers' = r.subs
          /\ hcall' = [op |-> "unsubscribe", kind |-> event_type,
                       callback |-> callback, error |-> r.error]
  /\ UNCHANGED <<nonHook, hemit, calls>>

\* a publisher awaits emit(event) and every subscriber is a handler: no
\* coroutine is made, so emit returns without suspending. The program stops
\* emitting when the handlers' subscriptions would make the lists longer
\* than MaxRegistrations
EmitToHandlers ==
  /\ \E event_type \in HookKinds :
       LET r == emit_over_live_list(subscribers, event_type, 1,
                  [c \in Handlers |-> 0])
       IN /\ Len(r.subs[AGENT_SPAWNED]) + Len(r.subs[AGENT_STARTED])
               <= MaxRegistrations
          /\ subscribers' = r.subs
          /\ calls' = r.calls
          /\ hemit' = [pc |-> "idle", kind |-> event_type,
                       registered |-> subscribers[event_type],
                       tasks |-> <<>>, result |-> "returned"]
  /\ UNCHANGED <<nonHook, hcall>>

HandlerNext ==
  \/ SubscribeHandler
  \/ UnsubscribeHandler
  \/ EmitToHandlers

\* a HookManager whose subscribers subscribe and unsubscribe while an
\* event is being delivered
HandlerSpec == Init /\ [][HandlerNext]_vars

\* datetime.isoformat(), as far as the order of the text goes: the
\* fraction of the second is left out when the microseconds are 0
isoformat(t) == IF t.usec = 0 THEN <<t.sec>> ELSE <<t.sec, t.usec>>

\* the datetime a stored timestamp text stands for
fromisoformat(text) ==
  [sec |-> text[1], usec |-> IF Len(text) = 1 THEN 0 ELSE text[2]]

\* the order of two TEXT values in SQLite (memcmp; a proper prefix is less)
RECURSIVE TextLess(_, _)
TextLess(a, b) ==
  IF b = <<>>
  THEN FALSE
  ELSE IF a = <<>>
       THEN TRUE
       ELSE IF Head(a) # Head(b)
            THEN Head(a) < Head(b)
            ELSE TextLess(Tail(a), Tail(b))

\* EventStore.store_event: one more row; its id is its position
store_event(rows, event) ==
  Append(rows, [agent_id |-> event.agent_id,
                timestamp |-> isoformat(event.timestamp)])

\* the ids of the rows the WHERE clause of get_events keeps; an agent_id
\* that is not truthy adds no condition
Where(rows, agent_id) ==
  {id \in DOMAIN rows : agent_id = None \/ rows[id].agent_id = agent_id}

\* the orders in which the rows ids may come
RECURSIVE Perms(_)
Perms(ids) ==
  IF ids = {}
  THEN {<<>>}
  ELSE UNION {{<<id>> \o f : f \in Perms(ids \ {id})} : id \in ids}

\* ORDER BY timestamp ASC or DESC: rows of equal timestamp come in any order
OrderBy(rows, ids, desc) ==
  {f \in Perms(ids) :
     \A i \in 1..(Cardinality(ids) - 1) :
       IF desc
       THEN ~TextLess(rows[f[i]].timestamp, rows[f[i + 1]].timestamp)
       ELSE ~TextLess(rows[f[i + 1]].timestamp, rows[f[i]].timestamp)}

\* LIMIT ? OFFSET ?
LimitOffset(order, limit, offset) ==
  SubSeq(order, offset + 1,
         IF offset + limit < Len(order) THEN offset + limit ELSE Len(order))

\* ORDER BY id DESC
ById(ids) == {f \in Perms(ids) : \A i \in 1..(Cardinality(ids) - 1) : f[i] > f[i + 1]}

get_events_by_id(rows, agent_id, limit, offset) ==
  {LimitOffset(order, limit, offset) : order \in ById(Where(rows, agent_id))}

\* EventStore.get_events: the results the query may give
get_events(rows, agent_id, limit, offset) ==
  {LimitOffset(order, limit, offset) :
     order \in OrderBy(rows, Where(rows, agent_id), TRUE)}

\* EventStore.get_agent_timeline: the results the query may give
get_agent_timeline(rows, agent_id) ==
  OrderBy(rows, {id \in DOMAIN rows : rows[id].agent_id = agent_id}, FALSE)

\* a subscriber stores an event; what a reader got before is of an older
\* table
StoreEvent ==
  /\ Len(store) < MaxEvents
  /\ \E agent_id \in StoreAgents, timestamp \in Timestamps :
       store' = store_event(store, [agent_id |-> agent_id,
                                    timestamp |-> timestamp])
  /\ qres' = NoQuery
  /\ UNCHANGED nonStore

\* a reader calls get_events
GetEvents ==
  /\ \E agent_id \in StoreAgents \cup {None}, limit \in {1, DefaultLimit},
        offset \in {0, 1} :
       \E result \in get_events(store, agent_id, limit, offset) :
         qres' = [op |-> "get_events", agent_id |-> agent_id,
                  limit |-> limit, offset |-> offset,
                  result |-> result]
  /\ UNCHANGED <<nonStore, store>>

\* a reader calls get_agent_timeline
GetAgentTimeline ==
  /\ \E agent_id \in StoreAgents :
       \E result \in get_agent_timeline(store, agent_id) :
         qres' = [op |-> "get_agent_timeline", agent_id |-> agent_id,
                  limit |-> 0, offset |-> 0,
                  result |-> result]
  /\ UNCHANGED <<nonStore, store>>

StoreNext ==
  \/ StoreEvent
  \/ GetEvents
  \/ GetAgentTimeline

\* an EventStore with its writers and readers
StoreSpec == Init /\ [][StoreNext]_vars

\* create_worktree: nothing is tracked when the path exists already or
\* git fails; else the worktree is tracked, locked, created now
create_worktree(worktrees, agent_id, now, outcome) ==
  IF outcome # "created"
  THEN worktrees
  ELSE [a \in DOMAIN worktrees \cup {agent_id} |->
          IF a = agent_id
          THEN [created_at |-> now, locked |-> TRUE]
          ELSE worktrees[a]]

remove_worktree_always(worktrees, agent_id, force, returncode) ==
  IF agent_id \notin DOMAIN worktrees
  THEN worktrees
  ELSE IF worktrees[agent_id].locked /\ ~force
       THEN worktrees
       ELSE [a \in DOMAIN worktrees \ {agent_id} |-> worktrees[a]]

\* remove_worktree: a locked worktree is left alone unless force is set;
\* the entry goes only when git worktree remove succeeded
remove_worktree(worktrees, agent_id, force, returncode) ==
  IF agent_id \notin DOMAIN worktrees
  THEN worktrees
  ELSE IF worktrees[agent_id].locked /\ ~force
       THEN worktrees
       ELSE IF returncode = 0
            THEN [a \in DOMAIN worktrees \ {agent_id} |-> worktrees[a]]
            ELSE worktrees

\* unlock_worktree
unlock_worktree(worktrees, agent_id) ==
  IF agent_id \in DOMAIN worktrees
  THEN [worktrees EXCEPT ![agent_id].locked = FALSE]
  ELSE worktrees

\* what create_worktree comes to: repo_path is no repository, the
\* worktree path exists already, or git worktree add succeeds or not
create_outcome(dirs, agent_id, is_repo, returncode) ==
  IF ~is_repo
  THEN "not_repo"
  ELSE IF agent_id \in dirs
       THEN "exists"
       ELSE IF returncode = 0 THEN "created" ELSE "failed"

\* what create_worktree returns
create_return(agent_id, outcome) ==
  IF outcome \in {"created", "exists"} THEN WorktreePath(agent_id) ELSE None

\* the git commands create_worktree runs: is_git_repo, get_repo_root, and
\* git worktree add when the path is free
create_git(outcome) ==
  IF outcome = "not_repo"
  THEN {"rev-parse"}
  ELSE IF outcome = "exists"
       THEN {"rev-parse"}
       ELSE {"rev-parse", "worktree add"}

\* the directories after create_worktree
create_paths(dirs, agent_id, outcome) ==
  IF outcome = "created" THEN dirs \cup {agent_id} ELSE dirs

\* get_or_create_worktree: repo_path when it is no repository, the path
\* of the tracked worktree if there is one, else what create_worktree
\* returns, or repo_path when that is None
get_or_create_worktree(worktrees, dirs, agent_id, now, is_repo, returncode) ==
  IF ~is_repo
  THEN [worktrees |-> worktrees, paths |-> dirs, outcome |-> "not_repo",
        path |-> RepoPath, git |-> {"rev-parse"}]
  ELSE IF agent_id \in DOMAIN worktrees
       THEN [worktrees |-> worktrees, paths |-> dirs, outcome |-> "tracked",
             path |-> WorktreePath(agent_id), git |-> {"rev-parse"}]
       ELSE LET outcome == create_outcome(dirs, agent_id, is_repo, returncode)
                path == create_return(agent_id, outcome)
            IN [worktrees |->
                  create_worktree(worktrees, agent_id, now, outcome),
                paths |-> create_paths(dirs, agent_id, outcome),
                outcome |-> outcome,
                path |-> IF path = None THEN RepoPath ELSE path,
                git |-> create_git(outcome)]

\* the git commands remove_worktree runs
remove_git(worktrees, agent_id, force) ==
  IF agent_id \notin DOMAIN worktrees
  THEN {}
  ELSE IF worktrees[agent_id].locked /\ ~force
       THEN {}
       ELSE {"worktree remove"}

\* the directories after a call that left the worktrees after of the
\* worktrees before: git worktree remove deletes the directory when it
\* succeeds, and only then the entry is deleted
remove_paths(dirs, before, after) == dirs \ (DOMAIN before \ DOMAIN after)

RECURSIVE cleanup_loop_force(_, _, _, _)
cleanup_loop_force(worktrees, keys, cutoff_time, git) ==
  IF keys = {}
  THEN worktrees
  ELSE LET agent_id == CHOOSE a \in keys : \A b \in keys : a <= b
           rest == keys \ {agent_id}
       IN IF worktrees[agent_id].created_at < cutoff_time
          THEN cleanup_loop_force(
                 remove_worktree(worktrees, agent_id, TRUE, git[agent_id]),
                 rest, cutoff_time, git)
          ELSE cleanup_loop_force(worktrees, rest, cutoff_time, git)

\* the loop of cleanup_old_worktrees over the keys that are left; git holds
\* the return code of git worktree remove for each worktree
RECURSIVE cleanup_loop(_, _, _, _)
cleanup_loop(worktrees, keys, cutoff_time, git) ==
  IF keys = {}
  THEN worktrees
  ELSE LET agent_id == CHOOSE a \in keys : \A b \in keys : a <= b
           rest == keys \ {agent_id}
       IN IF worktrees[agent_id].locked
          THEN cleanup_loop(worktrees, rest, cutoff_time, git)
          ELSE IF worktrees[agent_id].created_at < cutoff_time
               THEN cleanup_loop(
                      remove_worktree(worktrees, agent_id, FALSE,
                                      git[agent_id]),
                      rest, cutoff_time, git)
               ELSE cleanup_loop(worktrees, rest, cutoff_time, git)

\* cleanup_old_worktrees: nothing is done unless repo_path is a git
\* repository that has a worktree directory (is_repo); the loop is over
\* every tracked worktree and does not look at repo_path
cleanup_old_worktrees(worktrees, hours, now, is_repo, git) ==
  IF ~is_repo
  THEN worktrees
  ELSE cleanup_loop(worktrees, DOMAIN worktrees, now - hours, git)

\* a WorktreeManager made with any cleanup_after_hours
WorktreeInit ==
  /\ FleetInit
  /\ HookManagerInit
  /\ EventStoreInit
  /\ \E hours \in 0..MaxCleanupAfter : WorktreeManagerInit(hours)
  /\ OrchestratorInit
  /\ ObservabilityInit

\* an agent asks for a worktree
CreateWorktree ==
  /\ \E agent_id \in WtAgents, is_repo \in BOOLEAN, returncode \in {0, 1} :
       LET outcome == create_outcome(paths, agent_id, is_repo, returncode)
       IN /\ active_worktrees' =
               create_worktree(active_worktrees, agent_id, clock, outcome)
          /\ paths' = create_paths(paths, agent_id, outcome)
          /\ wtret' = [op |-> "create_worktree", agent_id |-> agent_id,
                       is_repo |-> is_repo, force |-> FALSE,
                       outcome |-> outcome,
                       path |-> create_return(agent_id, outcome),
                       git |-> create_git(outcome)]
  /\ wtcall' = "create_worktree"
  /\ UNCHANGED <<nonTree, cleanup_after_hours, clock>>

\* an agent asks for its worktree through get_or_create_worktree
GetOrCreateWorktree ==
  /\ \E agent_id \in WtAgents, is_repo \in BOOLEAN, returncode \in {0, 1} :
       LET r == get_or_create_worktree(active_worktrees, paths, agent_id,
                                       clock, is_repo, returncode)
       IN /\ active_worktrees' = r.worktrees
          /\ paths' = r.paths
          /\ wtret' = [op |-> "get_or_create_worktree",
                       agent_id |-> agent_id, is_repo |-> is_repo,
                       force |-> FALSE, outcome |-> r.outcome,
                       path |-> r.path, git |-> r.git]
  /\ wtcall' = "get_or_create_worktree"
  /\ UNCHANGED <<nonTree, cleanup_after_hours, clock>>

\* the process starts again: the tracking map is not persisted, the
\* directories are
Restart ==
  /\ active_worktrees # <<>>
  /\ active_worktrees' = <<>>
  /\ wtcall' = None
  /\ wtret' = NoWtCall
  /\ UNCHANGED <<nonTree, cleanup_after_hours, clock, paths>>

\* the program removes a worktree
RemoveWorktree ==
  /\ \E agent_id \in WtAgents, force \in BOOLEAN, returncode \in {0, 1} :
       /\ active_worktrees' =
            remove_worktree(active_worktrees, agent_id, force, returncode)
       /\ wtret' = [op |-> "remove_worktree", agent_id |-> agent_id,
                    is_repo |-> TRUE, force |-> force,
                    outcome |-> IF returncode = 0 THEN "ok" ELSE "failed",
                    path |-> None,
                    git |-> remove_git(active_worktrees, agent_id, force)]
  /\ paths' = remove_paths(paths, active_worktrees, active_worktrees')
  /\ wtcall' = "remove_worktree"
  /\ UNCHANGED <<nonTree, cleanup_after_hours, clock>>

\* the orchestrator unlocks the worktree of an agent that is done
UnlockWorktree ==
  /\ \E agent_id \in WtAgents :
       /\ active_worktrees' = unlock_worktree(active_worktrees, agent_id)
       /\ wtret' = [NoWtCall EXCEPT !.op = "unlock_worktree",
                                    !.agent_id = agent_id]
  /\ wtcall' = "unlock_worktree"
  /\ UNCHANGED <<nonTree, cleanup_after_hours, clock, paths>>

\* the program calls cleanup_old_worktrees
CleanupOld ==
  /\ \E repo_path \in Repos, is_repo \in BOOLEAN, git \in [WtAgents -> {0, 1}] :
       /\ active_worktrees' =
            cleanup_old_worktrees(active_worktrees, cleanup_after_hours,
                                  clock, is_repo, git)
       /\ wtret' = [NoWtCall EXCEPT !.op = "cleanup_old_worktrees",
                                    !.is_repo = is_repo, !.path = repo_path]
  /\ paths' = remove_paths(paths, active_worktrees, active_worktrees')
  /\ wtcall' = "cleanup_old_worktrees"
  /\ UNCHANGED <<nonTree, cleanup_after_hours, clock>>

\* an hour passes
Tick ==
  /\ clock < MaxClock
  /\ clock' = clock + 1
  /\ wtcall' = None
  /\ wtret' = NoWtCall
  /\ UNCHANGED <<nonTree, active_worktrees, cleanup_after_hours, paths>>

WorktreeNext ==
  \/ CreateWorktree
  \/ GetOrCreateWorktree
  \/ Restart
  \/ RemoveWorktree
  \/ UnlockWorktree
  \/ CleanupOld
  \/ Tick

\* a WorktreeManager with the program that uses it
WorktreeSpec == WorktreeInit /\ [][WorktreeNext]_vars

\* what a driver reports in its AgentResult: tokens_used and cost
Reports == [tokens : 0..MaxTokens, cost : 0..MaxCost]

\* the AgentResult of the driver of agent_id
AgentResult(agent_id, report) ==
  [agent_name |-> agent_id, tokens_used |-> report.tokens,
   cost |-> report.cost]

\* Turn(role='assistant', content=result.response, agent=..., tokens=...,
\* cost=...)
Turn(result) ==
  [role |-> "assistant", agent |-> result.agent_name,
   tokens |-> result.tokens_used, cost |-> result.cost]

_update_session_turn_only(sess, result) ==
  IF ~sess.present
  THEN sess
  ELSE [sess EXCEPT !.conversation = Append(@, Turn(result))]

\* _update_session: nothing without a session; else one turn more and the
\* totals increased
_update_session(sess, result) ==
  IF ~sess.present
  THEN sess
  ELSE [sess EXCEPT !.conversation = Append(@, Turn(result)),
                    !.total_tokens = @ + result.tokens_used,
                    !.total_cost = @ + result.cost]

\* the exceptions wait_for_agent raises
WaitErrors == {"ValueError", "RuntimeError", "TimeoutError"}

\* agent_id_temp of the spawn numbered task: a fresh name that no fleet
\* agent id equals
TempId(task) == 0 - task

\* _format_multi_results, as the parts of the rendered text: the message
\* for no results, the only response, or one panel per result and the
\* summary
_format_multi_results(results) ==
  IF results = <<>>
  THEN <<"no_results">>
  ELSE IF Len(results) = 1
       THEN <<"response">>
       ELSE [i \in 1..Len(results) |-> "panel"] \o <<"summary">>

\* the call of wait_for_agent(agent_id, timeout=...) by the orchestrator
OrchWait(agent_id) == [NoWait EXCEPT !.id = agent_id, !.timeout = "positive"]

\* _execute_single from the await of wait_for_agent on (lines 157-174): one
\* iteration of the wait; sleeping suspends, a result updates the session,
\* an exception becomes the error text, and the finally clause cleans up
single_wait(s, o, sess, expired, report) ==
  LET agent_id == o.agent_ids[1].agent_id
      r == wait_for_agent(s, OrchWait(agent_id), expired)
  IN IF r.w.pc = "sleeping"
     THEN [s |-> r.s, o |-> [o EXCEPT !.pc = "waiting"], sess |-> sess]
     ELSE IF r.w.outcome \in WaitErrors
     THEN [s |-> cleanup_completed(r.s),
           o |-> [o EXCEPT !.pc = "returned",
                           !.outcomes = Append(@, r.w.outcome),
                           !.response = <<"error">>],
           sess |-> sess]
     ELSE LET result == AgentResult(agent_id, report)
          IN [s |-> cleanup_completed(r.s),
              o |-> [o EXCEPT !.pc = "returned",
                              !.outcomes = Append(@, r.w.outcome),
                              !.results = Append(@, result),
                              !.response = <<"response">>],
              sess |-> _update_session(sess, result)]

\* _execute_single (lines 123-174): spawn, the queued message when
\* spawn_agent gave None, else the wait
_execute_single(s, o, sess, task) ==
  LET s1 == spawn_agent(s, task)
  IN IF s1.ret = Queued
     THEN [s |-> s1,
           o |-> [o EXCEPT !.pc = "returned", !.response = <<"queued">>],
           sess |-> sess]
     ELSE single_wait(s1,
            [o EXCEPT !.agent_ids = <<[agent_id |-> s1.ret,
                                       worktree_path |-> None]>>],
            sess, FALSE, [tokens |-> 0, cost |-> 0])

\* the spawn loop of _execute_multi (lines 198-227), from agent i on: a
\* worktree for agent_id_temp, then spawn_agent; a queued agent is not
\* waited for
RECURSIVE multi_spawn(_, _, _, _, _, _, _, _, _, _)
multi_spawn(s, worktrees, dirs, o, i, num_agents, task, now, is_repo, returncode) ==
  IF i > num_agents
  THEN [s |-> s, worktrees |-> worktrees, paths |-> dirs, o |-> o]
  ELSE LET agent_id_temp == TempId(task)
           g == get_or_create_worktree(worktrees, dirs, agent_id_temp, now,
                                       is_repo, returncode[i])
           s1 == spawn_agent(s, task)
           o1 == [o EXCEPT
                    !.obtained = IF g.path # RepoPath
                                 THEN @ \cup {[temp |-> agent_id_temp,
                                               agent_id |-> s1.ret]}
                                 ELSE @,
                    !.agent_ids = IF s1.ret # Queued
                                  THEN Append(@, [agent_id |-> s1.ret,
                                                  worktree_path |-> g.path])
                                  ELSE @]
       IN multi_spawn(s1, g.worktrees, g.paths, o1, i + 1, num_agents,
                      task + 1, now, is_repo, returncode)

\* the wait loop of _execute_multi (lines 229-248), from agent o.k on, up
\* to the next sleep: a result is kept and the worktree of its agent id
\* unlocked, an exception is printed; after the last agent the fleet is
\* cleaned up and the results are rendered.  expired is whether the agent
\* slept on is past its timeout; reports[k] is what agent k's driver
\* reported.
RECURSIVE multi_wait(_, _, _, _, _)
multi_wait(s, worktrees, o, expired, reports) ==
  IF o.k > Len(o.agent_ids)
  THEN [s |-> cleanup_completed(s), worktrees |-> worktrees,
        o |-> [o EXCEPT !.pc = "returned",
                        !.response = _format_multi_results(o.results)]]
  ELSE LET a == o.agent_ids[o.k]
           r == wait_for_agent(s, OrchWait(a.agent_id), expired)
       IN IF r.w.pc = "sleeping"
          THEN [s |-> r.s, worktrees |-> worktrees,
                o |-> [o EXCEPT !.pc = "waiting"]]
          ELSE IF r.w.outcome \in WaitErrors
          THEN multi_wait(r.s, worktrees,
                          [o EXCEPT !.k = @ + 1,
                                    !.outcomes = Append(@, r.w.outcome)],
                          FALSE, reports)
          ELSE multi_wait(r.s,
                          IF a.worktree_path # RepoPath
                          THEN unlock_worktree(worktrees, a.agent_id)
                          ELSE worktrees,
                          [o EXCEPT !.k = @ + 1,
                                    !.outcomes = Append(@, r.w.outcome),
                                    !.results = Append(@,
                                       AgentResult(a.agent_id, reports[o.k]))],
                          FALSE, reports)

\* _execute_multi (lines 176-248) up to its first suspension
_execute_multi(s, worktrees, dirs, o, num_agents, task, now, is_repo, returncode) ==
  LET sp == multi_spawn(s, worktrees, dirs, o, 1, num_agents, task, now,
                        is_repo, returncode)
      w == multi_wait(sp.s, sp.worktrees, sp.o, FALSE,
                      [k \in 1..num_agents |-> [tokens |-> 0, cost |-> 0]])
  IN [s |-> w.s, worktrees |-> w.worktrees, paths |-> sp.paths, o |-> w.o]

\* an execute call starts: its mode, and the session as it is now
Call(mode) == [NoExecute EXCEPT !.pc = "running", !.mode = mode,
                                !.before = session]

\* AgnosticOrchestrator(..., max_concurrent_agents=...) with any limit up
\* to MaxOrchConcurrent, with a session or without one
OrchInit ==
  /\ \E limit \in 1..MaxOrchConcurrent : FleetManagerInit(limit)
  /\ HookManagerInit
  /\ EventStoreInit
  /\ WorktreeManagerInit(DefaultCleanupAfterHours)
  /\ orch = NoExecute
  /\ \E present \in BOOLEAN : session = [NewSession EXCEPT !.present = present]
  /\ ObservabilityInit

\* no execute call is in progress
OrchIdle == orch.pc \in {"idle", "returned", "raised"}

\* the program calls execute(user_input, mode="single")
ExecuteSingle ==
  /\ Interleave
  /\ OrchIdle
  /\ nextTask <= MaxOrchSubmit
  /\ LET r == _execute_single(State, Call("single"), session, nextTask)
     IN /\ Commit(r.s)
        /\ ret' = r.s.ret
        /\ orch' = r.o
        /\ session' = r.sess
  /\ nextTask' = nextTask + 1
  /\ UNCHANGED <<waitVars, hookVars, storeVars, treeVars, obsVars, callerVars>>

\* the program calls execute(user_input, mode="multi", num_agents=...) in
\* a workspace that is a git repository or is none; returncode[i] is how
\* git worktree add ends for agent i
ExecuteMulti ==
  /\ Interleave
  /\ OrchIdle
  /\ \E num_agents \in 0..MaxOrchSubmit, is_repo \in BOOLEAN :
       /\ nextTask + num_agents - 1 <= MaxOrchSubmit
       /\ \E returncode \in [1..num_agents -> {0, 1}] :
            LET r == _execute_multi(State, active_worktrees, paths,
                                    [Call("multi") EXCEPT
                                       !.num_agents = num_agents],
                                    num_agents, nextTask, clock, is_repo,
                                    returncode)
            IN /\ Commit(r.s)
               /\ ret' = r.s.ret
               /\ orch' = r.o
               /\ active_worktrees' = r.worktrees
               /\ paths' = r.paths
       /\ nextTask' = nextTask + num_agents
  /\ UNCHANGED <<session, waitVars, hookVars, storeVars, obsVars, callerVars,
                 cleanup_after_hours, clock, wtcall, wtret>>

\* the program calls execute(user_input, mode="auto"): the call is
\* suspended in _get_routing_suggestion
ExecuteAuto ==
  /\ Interleave
  /\ OrchIdle
  /\ nextTask <= MaxOrchSubmit
  /\ orch' = [Call("auto") EXCEPT !.pc = "routing"]
  /\ UNCHANGED <<fleetVars, session, waitVars, hookVars, storeVars, treeVars,
                 obsVars, callerVars>>

\* the program calls execute with mode="multi" and no num_agents, or with
\* an unknown mode: ValueError
ExecuteInvalid ==
  /\ Interleave
  /\ OrchIdle
  /\ \E mode \in {"multi", "other"} :
       orch' = [Call(mode) EXCEPT !.pc = "raised", !.error = "ValueError"]
  /\ UNCHANGED <<fleetVars, session, waitVars, hookVars, storeVars, treeVars,
                 obsVars, callerVars>>

\* create_routing_plan on the response of the primary agent: the plan in
\* the response, the default plan when the response has no fenced block and
\* is not JSON, and an exception when the fenced block is not JSON or the
\* plan lacks a key
create_routing_plan(response) ==
  IF response = "json"
  THEN "plan"
  ELSE IF response = "not_json" THEN "default_plan" ELSE "raise"

\* create_routing_plan is over (lines 106-116): with a plan, the task runs
\* in single mode whatever the plan says; an exception of the heuristic
\* leaves execute
RoutingDone ==
  /\ Interleave
  /\ orch.pc = "routing"
  /\ \E response \in {"json", "not_json", "fenced_not_json", "key_missing"} :
       IF create_routing_plan(response) = "raise"
       THEN /\ orch' = [orch EXCEPT !.pc = "raised", !.error = "routing"]
            /\ UNCHANGED <<fleetVars, session>>
       ELSE LET r == _execute_single(State, [orch EXCEPT !.pc = "running"],
                                     session, nextTask)
            IN /\ Commit(r.s)
               /\ ret' = r.s.ret
               /\ orch' = r.o
               /\ session' = r.sess
               /\ nextTask' = nextTask + 1
  /\ UNCHANGED <<waitVars, hookVars, storeVars, treeVars, obsVars, callerVars>>

\* asyncio.sleep(0.5) in wait_for_agent is over: execute goes on up to its
\* next sleep or its return
OrchPoll ==
  /\ Interleave
  /\ orch.pc = "waiting"
  /\ \E expired \in BOOLEAN :
       IF orch.mode = "multi"
       THEN \E reports \in [1..Len(orch.agent_ids) -> Reports] :
              LET r == multi_wait(State, active_worktrees, orch, expired,
                                  reports)
              IN /\ Commit(r.s)
                 /\ orch' = r.o
                 /\ active_worktrees' = r.worktrees
                 /\ UNCHANGED session
       ELSE \E report \in Reports :
              LET r == single_wait(State, orch, session, expired, report)
              IN /\ Commit(r.s)
                 /\ orch' = r.o
                 /\ session' = r.sess
                 /\ UNCHANGED active_worktrees
  /\ UNCHANGED <<nextTask, ret, waitVars, hookVars, storeVars, obsVars, callerVars,
                 cleanup_after_hours, clock, wtcall, paths, wtret>>

OrchNext ==
  \/ ExecuteSingle
  \/ ExecuteMulti
  \/ ExecuteAuto
  \/ ExecuteInvalid
  \/ RoutingDone
  \/ OrchPoll
  \/ RunAgentStep
  \/ AgentSpawnedStep
  \/ DriverDone

\* an orchestrator with its fleet, its worktrees and the program that
\* calls execute
OrchSpec == OrchInit /\ [][OrchNext]_vars

\* the members of a sequence
Range(seq) == {seq[i] : i \in DOMAIN seq}

\* ConnectionManager.connect: accept, then append
connect(conns, websocket) == Append(conns, websocket)

\* ConnectionManager.disconnect: list.remove of a websocket that is in the
\* list
disconnect(conns, websocket) ==
  IF websocket \in Range(conns) THEN Remove(conns, websocket) ELSE conns

\* one iteration of the for loop of ConnectionManager.broadcast (lines
\* 80-85) over the list as it is now: the iterator ends past the end of the
\* list; else send_json to the connection at its position, whose error is
\* caught and printed
broadcast_next(conns, socks, failed, b) ==
  IF b.i > Len(conns)
  THEN [b EXCEPT !.pc = "idle"]
  ELSE LET connection == conns[b.i]
       IN [b EXCEPT !.i = @ + 1,
                    !.attempted = @ \cup {connection},
                    !.again = @ \cup ({connection} \cap failed),
                    !.sent = IF socks[connection] = "open"
                             THEN @ \cup {connection} ELSE @,
                    !.failed = IF socks[connection] = "open"
                               THEN @ ELSE @ \cup {connection}]

\* a client connects to /ws (websocket_endpoint, lines 258-267): connect,
\* then the connected message; when that message cannot be sent the
\* endpoint disconnects the websocket again
WsConnect ==
  /\ \E c \in Connections, first \in {"sent", "fails"} :
       /\ sockets[c] = "new"
       /\ \A d \in Connections : d < c => sockets[d] # "new"
       /\ IF first = "sent"
          THEN /\ active_connections' = connect(active_connections, c)
               /\ sockets' = [sockets EXCEPT ![c] = "open"]
          ELSE /\ active_connections' =
                    disconnect(connect(active_connections, c), c)
               /\ sockets' = [sockets EXCEPT ![c] = "closed"]
  /\ UNCHANGED <<bcast, send_failed, nbroadcast, nonWs>>

\* the peer of an open websocket goes away: sending to it fails from now
\* on; the endpoint is still suspended in receive_text
WsBreak ==
  /\ \E c \in Connections :
       /\ sockets[c] = "open"
       /\ sockets' = [sockets EXCEPT ![c] = "broken"]
  /\ UNCHANGED <<active_connections, bcast, send_failed, nbroadcast, nonWs>>

\* receive_text of the endpoint raises WebSocketDisconnect (lines 278-283):
\* manager.disconnect
WsEndpointDisconnect ==
  /\ \E c \in Connections :
       /\ sockets[c] = "broken"
       /\ active_connections' = disconnect(active_connections, c)
       /\ sockets' = [sockets EXCEPT ![c] = "closed"]
  /\ UNCHANGED <<bcast, send_failed, nbroadcast, nonWs>>

\* an event is emitted: broadcast_event calls manager.broadcast, which
\* runs up to its first await
Broadcast ==
  /\ bcast.pc = "idle"
  /\ nbroadcast < MaxBroadcasts
  /\ nbroadcast' = nbroadcast + 1
  /\ bcast' = broadcast_next(active_connections, sockets, send_failed,
                             [NoBroadcast EXCEPT !.pc = "sending"])
  /\ send_failed' = send_failed \cup bcast'.failed
  /\ UNCHANGED <<active_connections, sockets, nonWs>>

\* send_json is over: the next iteration of the loop of broadcast
BroadcastNext ==
  /\ bcast.pc = "sending"
  /\ bcast' = broadcast_next(active_connections, sockets, send_failed, bcast)
  /\ send_failed' = send_failed \cup bcast'.failed
  /\ UNCHANGED <<active_connections, sockets, nbroadcast, nonWs>>

WsNext ==
  \/ WsConnect
  \/ WsBreak
  \/ WsEndpointDisconnect
  \/ Broadcast
  \/ BroadcastNext

\* the ConnectionManager with its websockets and the broadcasts
WsSpec == Init /\ [][WsNext]_vars

\* DatabaseEventSubscriber.handle_event (lines 24-34): store_event, and a
\* failure of the write is caught and printed
handle_event(rows, event, write) ==
  [rows |-> IF write = "ok" THEN store_event(rows, event) ELSE rows,
   raised |-> FALSE]

\* HookManager.emit of an event with handle_event as the subscriber: the
\* callback is called inside the try of lines 71-79
emit_handle_event(rows, event, write) ==
  LET r == handle_event(rows, event, write)
  IN [rows |-> r.rows, raised |-> FALSE]

\* an operation emits an event that the DatabaseEventSubscriber persists;
\* the write to the events table succeeds or fails
EmitStored ==
  /\ Len(store) < MaxEvents
  /\ \E agent_id \in StoreAgents, timestamp \in Timestamps,
        write \in {"ok", "fails"} :
       LET event == [agent_id |-> agent_id, timestamp |-> timestamp]
           r == emit_handle_event(store, event, write)
       IN /\ store' = r.rows
          /\ persist' = [event |-> event, write |-> write,
                         raised |-> r.raised, before |-> Len(store)]
  /\ qres' = NoQuery
  /\ UNCHANGED <<wsVars, nonObs>>

PersistNext ==
  \/ EmitStored
  \/ GetAgentTimeline

\* the hook manager with the DatabaseEventSubscriber and the EventStore
PersistSpec == Init /\ [][PersistNext]_vars

\* the projects submissions are made for, and the project of a submission
Projects == {"a", "b"}

ProjectOf(task) == IF task % 2 = 1 THEN "a" ELSE "b"

\* what a caller holds after a read: the AgentInstance objects in the value
\* returned, which are the objects of active_agents themselves, and their
\* fields at the return
Hold(s, op, ids) ==
  [op |-> op, ids |-> ids, at_return |-> [id \in ids |-> s.inst[id]],
   edits |-> 0]

\* get_agent_status: active_agents.get(agent_id), the instance or None
get_agent_status_value(s, agent_id) ==
  Hold(s, "get_agent_status", {agent_id} \cap s.active)

\* list_active_agents: list(active_agents.values()), a new list of the
\* same instances
list_active_agents(s) == Hold(s, "list_active_agents", s.active)

\* list_agents_by_project: a new list of the instances of the project
list_agents_by_project(s, project) ==
  Hold(s, "list_agents_by_project",
       {id \in s.active : ProjectOf(s.inst[id].task) = project})

\* what the caller reads now in the value it holds
HeldValue == [id \in held.ids |-> instances[id]]

\* a caller calls get_agent_status and keeps what it gets
GetAgentStatus ==
  /\ Interleave
  /\ \E agent_id \in CallerIds : held' = get_agent_status_value(State, agent_id)
  /\ UNCHANGED <<fleetVars, save_error, nonCaller>>

\* a caller calls list_active_agents and keeps the list
ListActiveAgents ==
  /\ Interleave
  /\ held' = list_active_agents(State)
  /\ UNCHANGED <<fleetVars, save_error, nonCaller>>

\* a caller calls list_agents_by_project and keeps the list
ListAgentsByProject ==
  /\ Interleave
  /\ \E project \in Projects : held' = list_agents_by_project(State, project)
  /\ UNCHANGED <<fleetVars, save_error, nonCaller>>

\* the caller assigns to a field of an instance in the value it holds
EditHeldInstance ==
  /\ Interleave
  /\ held.edits = 0
  /\ \E id \in held.ids :
       /\ instances[id].status # SHUTDOWN
       /\ instances' = [instances EXCEPT ![id].status = SHUTDOWN]
  /\ held' = [held EXCEPT !.edits = @ + 1]
  /\ UNCHANGED <<active_agents, db, task_queue, ready, blocked, events,
                 crashed, nextId, nextTask, wasQueued, ret, raised,
                 max_concurrent, delivered, save_error, nonCaller>>

\* the caller removes an instance from the list it holds
RemoveFromHeldList ==
  /\ Interleave
  /\ held.edits = 0
  /\ held.op \in {"list_active_agents", "list_agents_by_project"}
  /\ \E id \in held.ids :
       held' = [held EXCEPT !.ids = @ \ {id},
                            !.at_return = [i \in held.ids \ {id} |-> @[i]],
                            !.edits = @ + 1]
  /\ UNCHANGED <<fleetVars, save_error, nonCaller>>

ReadNext ==
  \/ WaitSubmit
  \/ Shutdown
  \/ Cleanup
  \/ RunAgentStep
  \/ AgentSpawnedStep
  \/ DriverDone
  \/ GetAgentStatus
  \/ ListActiveAgents
  \/ ListAgentsByProject
  \/ EditHeldInstance
  \/ RemoveFromHeldList

\* the fleet manager with callers that read its instances
ReadSpec == Init /\ [][ReadNext]_vars

TypeOK ==
  /\ active_agents \subseteq AgentIds
  /\ get_queue_size <= MaxSubmit
  /\ \A i \in AgentIds : instances[i].status \in AgentStatus \cup {None}

\* the agent ids generated so far
Admitted == 1..(nextId - 1)

\* how many events of the given kinds a delivery sequence holds
Count(seq, kinds) == Cardinality({k \in DOMAIN seq : seq[k] \in kinds})

\* no task is ready and no driver is outstanding
Quiescent == ready = <<>> /\ blocked = {}

\* C1: in every reachable state the number of instances in state Running
\* is at most max_concurrent
C1_RunningWithinLimit == get_running_count <= MaxConcurrent

C1_Witness == get_running_count = MaxConcurrent /\ task_queue # <<>>

\* C2: every queued submission is admitted by a worker's finalization step
\* with no other call needed; so once every driver has returned and every
\* task has run to its end, nothing is left on the queue
C2_QueueDrains == Quiescent => task_queue = <<>>

\* C3: per agent id the events are delivered in the order AgentSpawned,
\* AgentStarted, then one of AgentCompleted / AgentFailed
C3_LifecycleOrder ==
  \A id \in AgentIds :
    /\ Len(events[id]) <= 3
    /\ Len(events[id]) >= 1 => events[id][1] = AGENT_SPAWNED
    /\ Len(events[id]) >= 2 => events[id][2] = AGENT_STARTED
    /\ Len(events[id]) >= 3 => events[id][3] \in {AGENT_COMPLETED, AGENT_FAILED}

\* C4: queued submissions are admitted in FIFO order: of two submissions
\* that were both queued, the one queued first gets its instance first, and
\* a submission still on the queue was queued after every queued submission
\* that has an instance
C4_QueueFIFO ==
  /\ \A i, j \in Admitted :
       ( /\ instances[i].task \in wasQueued
         /\ instances[j].task \in wasQueued
         /\ instances[i].task < instances[j].task ) => i < j
  /\ \A i \in Admitted : \A k \in DOMAIN task_queue :
       instances[i].task \in wasQueued => instances[i].task < task_queue[k]

C4_Witness ==
  \E i, j \in Admitted :
    /\ i < j
    /\ instances[i].task \in wasQueued
    /\ instances[j].task \in wasQueued

\* C5: spawn_agent admits (new Spawning instance, its id returned) exactly
\* when fewer than max_concurrent instances are active; otherwise it appends
\* the submission to the tail of the queue, returns the queued sentinel and
\* creates no instance, no registry row, no event and no task
C5_SubmitAdmitsOrQueues ==
  [][nextTask' # nextTask =>
       IF Cardinality(active_agents) < MaxConcurrent
       THEN /\ ret' # Queued
            /\ ret' \notin active_agents
            /\ active_agents' = active_agents \cup {ret'}
            /\ instances'[ret'].status = SPAWNING
            /\ instances'[ret'].task = nextTask
            /\ db'[ret'].status = SPAWNING
            /\ task_queue' = task_queue
       ELSE /\ Cardinality(active_agents) = MaxConcurrent
            /\ ret' = Queued
            /\ task_queue' = Append(task_queue, nextTask)
            /\ active_agents' = active_agents
            /\ instances' = instances
            /\ db' = db
            /\ events' = events
            /\ ready' = ready
            /\ nextId' = nextId]_vars

C5_Witness ==
  /\ ret = Queued
  /\ Len(task_queue) >= 2
  /\ Cardinality(active_agents) = MaxConcurrent

\* position of a status along Spawning -> Running -> terminal
Rank(status) ==
  CASE status = None -> 0
    [] status = SPAWNING -> 1
    [] status = RUNNING -> 2
    [] OTHER -> 3

\* C6: an instance's state only moves forward along
\* Spawning -> Running -> {Completed, Failed, Shutdown}, and a terminal
\* state is never changed again
C6_MonotonicState ==
  [][\A id \in AgentIds :
       /\ Rank(instances'[id].status) >= Rank(instances[id].status)
       /\ instances[id].status \in Terminal =>
            instances'[id].status = instances[id].status]_vars

\* C7: once shutdown has marked an instance Shutdown, no AgentStarted,
\* AgentCompleted or AgentFailed event is emitted for it
C7_NoEventAfterShutdown ==
  [][\A id \in AgentIds :
       instances[id].status = SHUTDOWN =>
         \A k \in (Len(events[id]) + 1)..Len(events'[id]) :
           events'[id][k] = AGENT_SPAWNED]_vars

\* C8: per admitted instance at most one AgentSpawned and at most one
\* terminal event (AgentCompleted or AgentFailed) are emitted, and exactly
\* one AgentSpawned once its emission task has run
C8_OneSpawnedOneTerminal ==
  \A id \in AgentIds :
    /\ Count(events[id], {AGENT_SPAWNED}) <= 1
    /\ Count(events[id], {AGENT_COMPLETED, AGENT_FAILED}) <= 1
    /\ id \notin Admitted => events[id] = <<>>
    /\ ( /\ id \in Admitted
         /\ \A k \in DOMAIN ready : ready[k] # Task("spawned", id, "start") )
       => Count(events[id], {AGENT_SPAWNED}) = 1

C8_Witness ==
  \E id \in Admitted :
    /\ Count(events[id], {AGENT_SPAWNED}) = 1
    /\ Count(events[id], {AGENT_COMPLETED, AGENT_FAILED}) = 1
    /\ instances[id].status = SHUTDOWN

\* C9: if AgentCompleted (AgentFailed) was emitted for an instance, its
\* registry row has state completed (failed)
C9_TerminalEventMatchesRow ==
  \A id \in AgentIds :
    /\ Count(events[id], {AGENT_COMPLETED}) > 0 => db[id].status = COMPLETED
    /\ Count(events[id], {AGENT_FAILED}) > 0 => db[id].status = FAILED

\* C10: result is populated iff the state is Completed, error iff the state
\* is Failed, completion_time iff the state is terminal
C10_FieldsMatchState ==
  \A id \in Admitted :
    /\ instances[id].result # None <=> instances[id].status = COMPLETED
    /\ instances[id].error # None <=> instances[id].status = FAILED
    /\ instances[id].completion_time # None <=> instances[id].status \in Terminal

\* C11: a wait without timeout never goes back to sleep after an iteration
\* that found the instance in a terminal state; it returns the result for
\* Completed and fails otherwise
C11_WaitStopsOnTerminal ==
  \A w \in Waiters :
    /\ (waiters[w].pc = "sleeping" /\ waiters[w].timeout = None)
         => waiters[w].seen \notin Terminal
    /\ (waiters[w].pc = "done" /\ waiters[w].seen = COMPLETED)
         => waiters[w].outcome = "result"
    /\ (waiters[w].pc = "done" /\ waiters[w].seen \in {FAILED, SHUTDOWN})
         => waiters[w].outcome \in {"RuntimeError", "ValueError"}

\* C12: a wait called with timeout 0 on an instance that is Spawning or
\* Running ends with a Timeout error in the call
C12_ZeroTimeoutTimesOut ==
  [][\A w \in Waiters :
       ( /\ waiters[w].pc = "idle"
         /\ waiters'[w].pc # "idle"
         /\ waiters'[w].timeout = "zero"
         /\ waiters'[w].id \in active_agents
         /\ instances[waiters'[w].id].status \in {SPAWNING, RUNNING} )
       => waiters'[w].outcome = "TimeoutError"]_vars

\* C13: the iteration in which a wait ends in Timeout changes nothing of
\* the fleet manager (instance, active map, queue, registry, the worker's
\* task), and a wait on the same id that later finds the instance Completed
\* returns its result
C13_TimeoutLeavesState ==
  [][\A w \in Waiters :
       /\ (waiters[w].outcome # "TimeoutError"
             /\ waiters'[w].outcome = "TimeoutError")
            => UNCHANGED fleetVars
       /\ ( /\ waiters[w].pc # "done"
            /\ waiters'[w].pc = "done"
            /\ \E v \in Waiters : /\ waiters[v].outcome = "TimeoutError"
                                  /\ waiters[v].id = waiters'[w].id
            /\ waiters'[w].id \in active_agents
            /\ instances[waiters'[w].id].status = COMPLETED )
          => waiters'[w].outcome = "result"]_vars

C13_Witness ==
  \E v, w \in Waiters :
    /\ v < w
    /\ waiters[v].outcome = "TimeoutError"
    /\ waiters[w].id = waiters[v].id
    /\ waiters[w].outcome = "result"
    /\ instances[waiters[v].id].status = COMPLETED
    /\ waiters[v].id \in active_agents

\* C14: two waits on the same admitted instance end the same way: when one
\* waiter has got the result, a waiter that is polling the same id and ends
\* without a Timeout gets the result too
C14_WaitersAgree ==
  [][\A v, w \in Waiters :
       ( /\ waiters[v].pc = "done"
         /\ waiters[v].outcome = "result"
         /\ waiters[w].pc = "sleeping"
         /\ waiters[w].id = waiters[v].id
         /\ waiters'[w].pc = "done"
         /\ waiters'[w].outcome # "TimeoutError" )
       => waiters'[w].outcome = waiters[v].outcome]_vars

\* C15: wait, status and shutdown with an id the scheduler does not know
\* each end with an error for the caller
C15_UnknownIdIsAnError ==
  /\ \A w \in Waiters :
       (waiters[w].pc = "done" /\ waiters[w].id = Queued)
         => waiters[w].outcome = "ValueError"
  /\ (reply.op # None /\ ~reply.found) => reply.error # None

\* C16: when the driver invocation of an instance raises, the instance
\* becomes Failed with the error recorded (also in its registry row), one
\* AgentFailed and no AgentCompleted is emitted for it, and its worker is
\* over: the driver is not invoked again
C16_DriverFailure ==
  /\ [](\A id \in raised :
          /\ Count(events[id], {AGENT_FAILED}) = 1
          /\ Count(events[id], {AGENT_COMPLETED}) = 0
          /\ id \notin blocked
          /\ \A k \in DOMAIN ready : ready[k].kind = "run" => ready[k].id # id
          /\ instances[id].error # None
          /\ db[id].error # None)
  /\ [][\A id \in raised' \ raised :
          /\ instances'[id].status = FAILED
          /\ db'[id].status = FAILED]_vars

C16_Witness ==
  \E id \in raised :
    /\ instances[id].status = FAILED
    /\ Count(events[id], {AGENT_STARTED}) = 1
    /\ Count(events[id], {AGENT_FAILED}) = 1
\* C17: whatever the subscribers of a kind are, plain functions or coroutine
\* functions, emit never raises to its publisher; and when one of them
\* raises, every other subscriber registered for the kind has run exactly
\* once when emit returns.
C17_RaisingSubscriberIsContained ==
  /\ hemit.result # "raised"
  /\ (/\ hemit.result = "returned"
      /\ \E k \in DOMAIN hemit.registered : cbAttr[hemit.registered[k]].raises)
     => \A c \in Callbacks :
          Registrations(hemit.registered, c) = 1 => calls[c] = 1

\* emit returned after a plain function raised first and a coroutine
\* raised in the gather, and the subscriber after them ran
C17_Witness ==
  /\ hemit.result = "returned"
  /\ hemit.registered \in {<<"sync_raises", "sync_ok">>,
                           <<"async_raises", "async_ok">>}
  /\ calls[hemit.registered[1]] = 1
  /\ calls[hemit.registered[2]] = 1

\* a subscribe or unsubscribe call was made in this step
HookCalled == <<subscribers, hcall>>' # <<subscribers, hcall>>

\* C18: emit runs a callback once per registration it has for the event's
\* kind and never for a registration of another kind; subscribe adds one
\* registration even when the callback is registered already; unsubscribe
\* removes exactly one registration of the callback for the kind, and for
\* a callback that is not registered it changes nothing and raises nothing.
C18_OncePerRegistration ==
  /\ [](/\ hcall.error = None
        /\ hemit.result = "returned" =>
             \A c \in Callbacks : calls[c] = Registrations(hemit.registered, c))
  /\ [][/\ (hemit.pc = "idle" /\ hemit' # hemit) =>
             hemit'.registered = subscribers[hemit'.kind]
        /\ (HookCalled /\ hcall'.op = "subscribe") =>
             subscribers' = [subscribers EXCEPT ![hcall'.kind] =
                               Append(@, hcall'.callback)]
        /\ (HookCalled /\ hcall'.op = "unsubscribe") =>
             LET k == hcall'.kind
                 c == hcall'.callback
                 n == Registrations(subscribers[k], c)
             IN /\ \A other \in HookKinds \ {k} :
                     subscribers'[other] = subscribers[other]
                /\ n = 0 => subscribers' = subscribers
                /\ n > 0 =>
                     /\ Registrations(subscribers'[k], c) = n - 1
                     /\ Len(subscribers'[k]) = Len(subscribers[k]) - 1]_vars

\* a callback registered twice ran twice for one emit, then one unsubscribe
\* left one registration
C18_Witness ==
  /\ hemit.result = "returned"
  /\ hcall.op = "unsubscribe"
  /\ hemit.kind = hcall.kind
  /\ calls[hcall.callback] = 2
  /\ Registrations(subscribers[hcall.kind], hcall.callback) = 1

\* the rows of the agent the query was about
Stored == {id \in DOMAIN store : store[id].agent_id = qres.agent_id}

\* the rows the last query returned
Returned == {qres.result[i] : i \in DOMAIN qres.result}

\* the time of a stored event
Time(id) == fromisoformat(store[id].timestamp)

Earlier(t, u) == t.sec < u.sec \/ (t.sec = u.sec /\ t.usec < u.usec)

\* C19: a query filtered by agent_id returns events of that agent in
\* nondecreasing timestamp order, and never leaves out an earlier event of
\* the agent while it returns a later one.
C19_QueryAscendingPrefix ==
  (qres.op # None /\ qres.agent_id # None) =>
    /\ Returned \subseteq Stored
    /\ \A i, j \in DOMAIN qres.result :
         i < j => ~Earlier(Time(qres.result[j]), Time(qres.result[i]))
    /\ \A x \in Stored \ Returned :
         \A y \in Returned : ~Earlier(Time(x), Time(y))

\* C19 as amended: get_events filtered by agent_id returns events of that
\* agent in nonincreasing timestamp order, a window of limit events of
\* that order which without an offset never leaves out a later event while
\* it returns an earlier one; get_agent_timeline returns all the events
\* of the agent in nondecreasing timestamp order.
C19_NewestFirstWindow ==
  /\ (qres.op = "get_events" /\ qres.agent_id # None) =>
       /\ Returned \subseteq Stored
       /\ \A i, j \in DOMAIN qres.result :
            i < j => ~Earlier(Time(qres.result[i]), Time(qres.result[j]))
       /\ \A x \in Stored \ Returned :
            ~\E y, z \in Returned :
               Earlier(Time(y), Time(x)) /\ Earlier(Time(x), Time(z))
       /\ qres.offset = 0 =>
            \A x \in Stored \ Returned :
              \A y \in Returned : ~Earlier(Time(y), Time(x))
       /\ LET rest == IF Cardinality(Stored) > qres.offset
                      THEN Cardinality(Stored) - qres.offset ELSE 0
          IN Len(qres.result) = IF qres.limit < rest THEN qres.limit ELSE rest
  /\ qres.op = "get_agent_timeline" =>
       /\ Returned = Stored
       /\ Len(qres.result) = Cardinality(Stored)
       /\ \A i, j \in DOMAIN qres.result :
            i < j => ~Earlier(Time(qres.result[j]), Time(qres.result[i]))

\* get_events with limit 1 returned the newer of two events of the agent,
\* the one stored first
C19_Witness ==
  /\ qres.op = "get_events"
  /\ qres.agent_id # None
  /\ qres.limit = 1
  /\ qres.offset = 0
  /\ Cardinality(Stored) >= 2
  /\ Len(qres.result) = 1
  /\ \E x \in Stored \ Returned :
       /\ Earlier(Time(x), Time(qres.result[1]))
       /\ qres.result[1] < x

\* C20: cleanup_old_worktrees never removes a locked worktree, whatever its
\* age and whatever cleanup_after_hours is: every worktree that is locked
\* when the call is made is still tracked and still locked after it.
C20_CleanupKeepsLocked ==
  [][wtcall' = "cleanup_old_worktrees" =>
       \A a \in DOMAIN active_worktrees :
         active_worktrees[a].locked =>
           /\ a \in DOMAIN active_worktrees'
           /\ active_worktrees'[a].locked]_vars

\* a cleanup was made while a locked worktree was older than the limit,
\* and the worktree is still tracked and locked
C20_Witness ==
  /\ wtcall = "cleanup_old_worktrees"
  /\ DOMAIN active_worktrees = {1}
  /\ active_worktrees[1].locked
  /\ active_worktrees[1].created_at < clock - cleanup_after_hours

\* C21: get_or_create_worktree called twice in a row with the same id on a
\* repository returns the same path both times, and the second call runs no
\* git command and leaves the tracking map as it was.
C21_SecondCallIsCached ==
  [][(/\ wtret.op = "get_or_create_worktree"
      /\ wtret'.op = "get_or_create_worktree"
      /\ wtret'.agent_id = wtret.agent_id
      /\ wtret.is_repo
      /\ wtret'.is_repo)
     => /\ wtret'.path = wtret.path
        /\ wtret'.git = {}
        /\ active_worktrees' = active_worktrees]_vars

\* C22: create_worktree on a repository fails when the worktree path exists
\* already: it returns no path and tracks nothing.
C22_ExistingPathFails ==
  [][(/\ wtret'.op = "create_worktree"
      /\ wtret'.is_repo
      /\ wtret'.agent_id \in paths)
     => /\ wtret'.path = None
        /\ active_worktrees' = active_worktrees]_vars

\* the worktree of the call just made was tracked and free to be removed
Removable ==
  /\ wtret'.agent_id \in DOMAIN active_worktrees
  /\ ~active_worktrees[wtret'.agent_id].locked \/ wtret'.force

\* C23: remove_worktree of a tracked worktree that is unlocked, or with
\* force, removes the worktree and its tracking entry; of an id that is not
\* tracked (a second remove) it changes nothing; without force on a locked
\* worktree it changes nothing.
C23_RemoveIdempotent ==
  [][wtret'.op = "remove_worktree" =>
       IF Removable
       THEN /\ wtret'.agent_id \notin DOMAIN active_worktrees'
            /\ wtret'.agent_id \notin paths'
       ELSE /\ active_worktrees' = active_worktrees
            /\ paths' = paths]_vars

\* C23 as amended: remove_worktree of a tracked worktree that is unlocked,
\* or with force, removes the worktree and its tracking entry when git
\* worktree remove succeeds, and changes nothing when it does not; of an id
\* that is not tracked, and without force on a locked worktree, it changes
\* nothing and runs no git command.
C23_RemoveWhenGitSucceeds ==
  [][wtret'.op = "remove_worktree" =>
       IF Removable /\ wtret'.outcome = "ok"
       THEN /\ wtret'.agent_id \notin DOMAIN active_worktrees'
            /\ wtret'.agent_id \notin paths'
            /\ \A a \in DOMAIN active_worktrees \ {wtret'.agent_id} :
                 /\ a \in DOMAIN active_worktrees'
                 /\ active_worktrees'[a] = active_worktrees[a]
       ELSE /\ active_worktrees' = active_worktrees
            /\ paths' = paths
            /\ ~Removable => wtret'.git = {}]_vars

\* a remove ran git worktree remove, and the entry and the directory of
\* the worktree are gone while another worktree is still there
C23_Witness ==
  /\ wtret.op = "remove_worktree"
  /\ wtret.outcome = "ok"
  /\ wtret.git = {"worktree remove"}
  /\ wtret.agent_id \notin DOMAIN active_worktrees
  /\ wtret.agent_id \notin paths
  /\ DOMAIN active_worktrees # {}

\* an execute call in the given mode has returned to its caller
ExecuteReturned(mode) == orch.pc = "returned" /\ orch.mode = mode

\* C24: after execute(task, multi, N) over a repository returns, every
\* worktree the call obtained through get_or_create_worktree is unlocked
\* once its agent has terminated, whether the agent completed or failed.
C24_WorktreesUnlocked ==
  ExecuteReturned("multi") =>
    \A w \in orch.obtained :
      (/\ w.agent_id # Queued
       /\ instances[w.agent_id].status \in {COMPLETED, FAILED})
      => ~active_worktrees[w.temp].locked

\* the session is the session of the call's start with the turns and the
\* amounts of results added, in order
RECURSIVE SessionAfter(_, _)
SessionAfter(sess, results) ==
  IF results = <<>>
  THEN sess
  ELSE SessionAfter([sess EXCEPT
                       !.conversation = Append(@, Turn(Head(results))),
                       !.total_tokens = @ + Head(results).tokens_used,
                       !.total_cost = @ + Head(results).cost],
                    Tail(results))

\* C25: execute(task, single) that succeeds appends exactly one assistant
\* Turn to the session conversation and increases total_tokens and
\* total_cost by the tokens and the cost of the agent result; when the
\* agent fails, times out or the task is queued, the conversation and the
\* totals are unchanged.
C25_SingleUpdatesSession ==
  (ExecuteReturned("single") /\ session.present) =>
    IF orch.outcomes = <<"result">>
    THEN /\ Len(orch.results) = 1
         /\ session = SessionAfter(orch.before, orch.results)
         /\ Len(session.conversation) = Len(orch.before.conversation) + 1
         /\ session.conversation[Len(session.conversation)].role = "assistant"
    ELSE session = orch.before

\* a second execute in single mode succeeded with a result that reports
\* tokens and cost, on a session that had a turn already
C25_Witness ==
  /\ ExecuteReturned("single")
  /\ session.present
  /\ orch.outcomes = <<"result">>
  /\ orch.results[1].tokens_used > 0
  /\ orch.results[1].cost > 0
  /\ Len(orch.before.conversation) = 1
  /\ Len(session.conversation) = 2

\* C26: every successful agent result obtained by execute, in single mode
\* and in multi mode alike, produces one assistant Turn and adds its
\* tokens and cost to the session totals; after execute(task, multi, N)
\* with k successful agents the conversation has grown by k turns.
C26_EveryResultUpdatesSession ==
  (orch.pc = "returned" /\ session.present) =>
    /\ Len(session.conversation) =
         Len(orch.before.conversation) + Count(orch.outcomes, {"result"})
    /\ session = SessionAfter(orch.before, orch.results)

\* C27: execute(task, multi, N) tolerates partial failure: when some of
\* the agents fail and the others succeed it returns, and the rendered
\* response has one error banner for each failed agent and one response for
\* each successful agent.
C27_PartialFailureRendered ==
  (/\ ExecuteReturned("multi")
   /\ Count(orch.outcomes, {"RuntimeError"}) > 0
   /\ Count(orch.outcomes, {"result"}) > 0)
  => /\ Count(orch.response, {"error_banner"}) =
          Count(orch.outcomes, {"RuntimeError"})
     /\ Count(orch.response, {"response"}) + Count(orch.response, {"panel"}) =
          Count(orch.outcomes, {"result"})

\* C28: if the routing heuristic raises during execute(task, auto), the
\* orchestrator runs the task in single mode and returns a response; the
\* error of the heuristic does not reach the caller.
C28_RoutingErrorContained ==
  orch.mode = "auto" => orch.pc # "raised"

\* C29: when sending an event to a websocket fails during a broadcast, the
\* connection is dropped: after the broadcast it is not among the active
\* connections and no later broadcast attempts to send to it, while the
\* other connections the broadcast sent to have received the event.
C29_FailedSendDropsConnection ==
  /\ bcast.pc = "idle" =>
       \A c \in send_failed : c \notin Range(active_connections)
  /\ bcast.again = {}
  /\ bcast.attempted \ bcast.failed \subseteq bcast.sent

\* C30: a failed event-store write is fatal to the operation that caused
\* it: when the write of an emitted event fails, the failure reaches the
\* emitting operation instead of the event being lost silently.
C30_StoreFailureSurfaced ==
  persist.write = "fails" => persist.raised

\* C31: max_concurrent is a hard ceiling on workers in progress: at no time
\* are more than max_concurrent driver invocations admitted and not yet
\* returned, whatever the interleaving of submit, shutdown, shutdown_all
\* and cleanup_completed with the workers.
C31_DriversWithinLimit ==
  Cardinality(blocked) <= max_concurrent

\* C32: execute(task, multi, N) submits N agents and returns only after
\* all N have reached a terminal state and contributed to the output, also
\* when N exceeds max_concurrent and some submissions are queued.  An agent
\* whose wait timed out is not asked to be terminal.
C32_MultiWaitsForAll ==
  ExecuteReturned("multi") =>
    /\ Len(orch.agent_ids) = orch.num_agents
    /\ \A k \in DOMAIN orch.agent_ids :
         orch.outcomes[k] # "TimeoutError" =>
           instances[orch.agent_ids[k].agent_id].status \in Terminal

\* the status that the registry row shows when an event of the kind is
\* delivered
StatusOf(kind) ==
  IF kind = AGENT_STARTED
  THEN RUNNING
  ELSE IF kind = AGENT_COMPLETED THEN COMPLETED ELSE FAILED

C34_AdmittedOnce ==
  /\ \A i, j \in Admitted : i # j => instances[i].task # instances[j].task
  /\ \A i \in Admitted : \A k \in DOMAIN task_queue :
       instances[i].task # task_queue[k]
  /\ \A k, l \in DOMAIN task_queue : k # l => task_queue[k] # task_queue[l]
  /\ Cardinality(active_agents) <= max_concurrent

\* the finalization of one worker admitted a queued submission while
\* another worker was waiting for its own finalization step
C34_Witness ==
  /\ Len(ready) >= 2
  /\ ready[1].kind = "run"
  /\ ready[1].pc = "driver_done"
  /\ ready[2].kind = "run"
  /\ ready[2].pc = "start"
  /\ instances[ready[2].id].task \in wasQueued

\* the worktree of agent a is one that cleanup_old(repo_path) is to remove:
\* under that repository, unlocked and older than cleanup_after
Stale(a, repo_path) ==
  /\ RepoRoot(a) = repo_path
  /\ ~active_worktrees[a].locked
  /\ active_worktrees[a].created_at < clock - cleanup_after_hours

\* C35: cleanup_old(repo_path) removes exactly the tracked worktrees under
\* that repository that are unlocked and older than cleanup_after; the
\* worktrees tracked under another repository, the locked and the younger
\* ones are left tracked and untouched.
C35_CleanupOnlyThatRepo ==
  [][(wtret'.op = "cleanup_old_worktrees" /\ wtret'.is_repo) =>
       \A a \in DOMAIN active_worktrees :
         IF Stale(a, wtret'.path)
         THEN a \notin DOMAIN active_worktrees'
         ELSE /\ a \in DOMAIN active_worktrees'
              /\ active_worktrees'[a] = active_worktrees[a]
              /\ a \in paths => a \in paths']_vars

\* C36: the values returned by status(id), list_active() and
\* list_by_project(project) are snapshots: a value already returned does
\* not change when the scheduler later changes the state of the instance,
\* and modifying a returned value does not change the active map of the
\* scheduler.
C36_ReadsAreSnapshots ==
  [][/\ HeldValue' = held'.at_return
     /\ held'.edits # held.edits =>
          /\ active_agents' = active_agents
          /\ instances' = instances]_vars

\* C37: a submission is never admitted ahead of the submissions that wait
\* in the queue. Whenever spawn_agent admits directly (it returns an agent
\* id and not the queued marker), the queue was empty at the call; this is
\* claimed of every state reached by submissions, worker steps and
\* cleanup_completed, so steps after a shutdown are left out.
NoShutdownYet == \A id \in 1..(nextId - 1) : instances[id].status # SHUTDOWN

C37_NoOvertaking ==
  [][(nextTask' # nextTask /\ ret' # Queued /\ NoShutdownYet)
       => task_queue = <<>>]_vars


\* C38: when a plain-function subscriber calls unsubscribe or subscribe
\* while emit delivers an event, every callback that was registered for the
\* kind when emit started, and that no subscriber unsubscribed during the
\* delivery, is still invoked for that event: once for each registration it
\* had, and at most once more for each subscription made during the
\* delivery.
UnsubscribedDuringEmit ==
  {handlerDoes[c].callback :
     c \in {h \in Handlers : calls[h] > 0 /\ handlerDoes[h].op = "unsubscribe"}}

SubscribedDuringEmit(callback) ==
  IF handlerDoes["sub_plain"].callback = callback
  THEN calls["sub_plain"] ELSE 0

C38_MutationDuringEmit ==
  (hemit.result = "returned" /\ DOMAIN calls = Handlers) =>
    \A c \in Range(hemit.registered) \ UnsubscribedDuringEmit :
      /\ calls[c] >= Registrations(hemit.registered, c)
      /\ calls[c] <= Registrations(hemit.registered, c)
                       + SubscribedDuringEmit(c)

\* C39: no worker ends with an unhandled error, whatever the interleaving
\* of shutdown and cleanup_completed with the worker. A worker that ends
\* with an unhandled error left _run_agent before its try statement, so it
\* never reached the queue processing of the finally clause.
C39_WorkerFinalizes == crashed = {}

\* C40: when the registry write fails during a submission, the scheduler
\* is as it was before the call: the active map and the queue are unchanged
\* (no Spawning instance stays in a concurrency slot) and no worker is put
\* on the loop.
C40_FailedSaveLeavesNoTrace ==
  [][save_error' # save_error =>
       /\ active_agents' = active_agents
       /\ task_queue' = task_queue
       /\ ready' = ready]_vars

====
